---- MODULE Spec2Model ----
(***************************************************************************)
(* A model of the streaming buffer and derived-signal pipeline engine of   *)
(* genki-signals: the buffers (buffers.py), the windowed transform         *)
(* (signal_functions/windowed.py), Integrate (signal_functions/            *)
(* arithmetic.py), compute_signal_functions (functions/base.py), the       *)
(* System processing loop (system.py) and the Sampler (signal_sources/     *)
(* sampler.py).                                                            *)
(*                                                                         *)
(* An array is a record [shape, t]: shape names the non-time axes          *)
(* (numpy's shape[:-1]) and t is the sequence of samples along the last    *)
(* (time) axis.  Python's None is the string "None" for cols and the empty *)
(* sequence for maxlen (a set maxlen B is <<B>>).                          *)
(***************************************************************************)
EXTENDS Integers, Sequences, FiniteSets, TLC

VARIABLES
    nb,        \* the NumpyBuffer under test: [maxlen, cols, data]
    db,        \* the DataBuffer under test: [maxlen, data], data a dict name -> array
    clock,     \* number of samples handed to the buffers so far (sample payloads are 1, 2, ...)
    nbHist,    \* every sample a NumpyBuffer extend was called with and accepted, in order
    dbHist,    \* per channel name: every sample a DataBuffer extend stored, in order
    popped,    \* TRUE once a popleft has removed samples from the buffer
    bufCall    \* the last buffer call: [op, arg, pre, err, out]

bufVars == <<nb, db, clock, nbHist, dbHist, popped, bufCall>>

VARIABLES
    win,       \* the windowed transform: its configuration and its two NumpyBuffers
    winShape,  \* the non-time axes of the chunks it is fed
    winFed,    \* number of samples fed so far (the samples are 1, 2, ...)
    winCall    \* the last call: [op, arg (chunk length), err, out, n (windows computed), pre]

winVars == <<win, winShape, winFed, winCall>>

VARIABLES
    intA, intB,  \* the two input signals a and b (b usually time)
    intFn,       \* the Integrate instance: [trapezoid, state, last_b]
    intPos,      \* number of samples fed so far
    intOut       \* the outputs of the calls so far, concatenated

intVars == <<intA, intB, intFn, intPos, intOut>>

VARIABLES
    pipeFns,   \* the list of signal functions: each [name, input_signals]
    pipeBatch, \* number of batches computed so far
    pipeCall   \* the last compute_signal_functions call: [op, data_in, err, out, calls]

pipeVars == <<pipeFns, pipeBatch, pipeCall>>

VARIABLES
    sys,          \* the System object: [functions, data_feeds, is_active, recorder,
                  \* is_recording, source]; data_feeds is the dict in insertion order
    sysThread,    \* main_thread running _busy_loop: its position and its locals
    sysUser,      \* the thread that calls the System's methods: "ready", or inside stop()
                  \* or stop_recording()
    sysBatch,     \* number of non-empty batches the source has returned
    sysDelivered, \* every call of a feed so far: [feed, batch, data, fns]
    sysRaised,    \* the batches on which a signal function raised
    sysRecorded   \* the non-empty buffers handed to recorder.write, in order: [batch, data]

sysVars == <<sys, sysThread, sysUser, sysBatch, sysDelivered, sysRaised, sysRecorded>>

VARIABLES
    smp,         \* the Sampler object: [is_active, busy_loop, is_recording, recording_buffer]
    smpQueue,    \* self.buffer, the queue.Queue of samples
    smpTimer,    \* the BusyThread: its position and the start_time of its callback
    smpReader,   \* the thread that calls read(): its position and its locals data and d
    smpUser,     \* the thread that calls start() and stop(): "ready" or inside stop()
    smpClock,    \* time.time()
    smpPut,      \* number of samples the callback has enqueued (the samples are 1, 2, ...)
    smpReturned, \* the buffers returned by read() so far, concatenated
    smpReads     \* number of read() calls that have returned

smpVars == <<smp, smpQueue, smpTimer, smpReader, smpUser, smpClock, smpPut, smpReturned,
             smpReads>>

VARIABLES
    serFn,     \* a SignalFunction instance: [type, input_signals, name, params]
    serEnc,    \* encode_signal_fn(serFn), once computed: [signal_function, type, inputs, name, params]
    serDec     \* decode_signal_fn(serEnc), once computed: [err, fn]

serVars == <<serFn, serEnc, serDec>>

VARIABLES
    detBatches,  \* the recorded sequence of input batches both runs are given
    detRun       \* per run (1, 2): [insts, pos, outs], the instances of the function
                 \* list, the batches computed so far and the buffer each one gave

detVars == <<detBatches, detRun>>

VARIABLES
    lc,          \* the System: [is_active, main_thread, source, functions, data_feeds,
                 \* is_recording]; main_thread is the index of the last thread started
    lcThreads,   \* every thread start() has created: [pc], in the order of creation
    lcUser,      \* the calling thread: [pc, err], err the outcome of its last start()
    lcStopped,   \* stop() has returned and start() has not succeeded since
    lcAttempts   \* the number of calls of source.start()

lcVars == <<lc, lcThreads, lcUser, lcStopped, lcAttempts>>

VARIABLES
    rec,         \* the PickleRecorder: [recording_buffer, has_written_file]
    recFile,     \* the file at self.path: [kind, data], kind absent, buffer or None
    recWritten,  \* the samples of every buffer written, in call order
    recCall      \* the last call: [op, err, writes], writes the number of write() calls so far

recVars == <<rec, recFile, recWritten, recCall>>

VARIABLES runWin, runFed, runCalls, runSizes, runOut, runWindows, runErrs
runVars == <<runWin, runFed, runCalls, runSizes, runOut, runWindows, runErrs>>

VARIABLES
    dlyFn,      \* the Delay instance: [n, buffer], buffer <<>> for None, else <<the NumpyBuffer>>
    dlyShape,   \* the non-time axes of the signal fed
    dlyFed,     \* number of samples fed so far
    dlyOut,     \* the concatenation of what the calls returned
    dlyCall     \* the last call: [op, arg, err, out]
dlyVars == <<dlyFn, dlyShape, dlyFed, dlyOut, dlyCall>>

VARIABLES
    cmbCombine,   \* the list holding the Combine of the inner functions
    cmbPipeline,  \* the list of the inner functions themselves, constructed alike
    cmbBatch,     \* number of batches computed
    cmbOut        \* the last batch: [op, combine, pipeline], each [err, v]
cmbVars == <<cmbCombine, cmbPipeline, cmbBatch, cmbOut>>

VARIABLES
    stSmp,        \* the Sampler: [is_active, start_time, busy_loop], busy_loop 0 for None, else the thread
    stHasStart,   \* the sources that have a start method
    stUser,       \* the thread that calls start() and stop(): its position, the steps left, the call
    stCalls,      \* number of start() calls begun
    stThreads,    \* the BusyThreads created: [call, pc, todo, queried, stop, callbacks]
    stReturned,   \* <<call, source>>: source.start() has returned in that call of start()
    stActivated,  \* the calls of start() that have set is_active
    stClock       \* time.time()
stVars == <<stSmp, stHasStart, stUser, stCalls, stThreads, stReturned, stActivated, stClock>>

VARIABLES
    cpHeap,      \* the dict objects: dict id -> channel name -> array
    cpRef,       \* cpRef[i]: the dict buffer i's _data refers to, 0 for no buffer
    cpMaxlen,    \* maxlen of the buffer and of its copy
    cpClock,     \* samples handed to the buffers so far
    cpCall       \* the last call: [op, buf, other (the other buffer's content before), err]
cpVars == <<cpHeap, cpRef, cpMaxlen, cpClock, cpCall>>

VARIABLES
    micHeap,     \* the dict objects: dict id -> channel name -> array
    micRef,      \* the dict self.buffer._data refers to
    micRecv,     \* the callback thread: [pc, chunk, result (the dict _concat stores into)]
    micReader,   \* the reader thread: [pc, value (the copy read() returns)]
    micReturned, \* the buffers read() returned, in order
    micChunks,   \* chunks passed to receive so far
    micReads     \* read() calls so far
micVars == <<micHeap, micRef, micRecv, micReader, micReturned, micChunks, micReads>>

VARIABLES rs, rsThreads, rsUser, rsRecorders, rsDispatched
rsVars == <<rs, rsThreads, rsUser, rsRecorders, rsDispatched>>

VARIABLES ss, ssThreads, ssUser, ssLate
ssVars == <<ss, ssThreads, ssUser, ssLate>>

VARIABLES lv, lvQueue, lvTimer, lvThread, lvUser, lvPut, lvDispatched
lvVars == <<lv, lvQueue, lvTimer, lvThread, lvUser, lvPut, lvDispatched>>

vars == <<bufVars, winVars, intVars, pipeVars, sysVars, smpVars, serVars, detVars, lcVars, recVars, runVars, dlyVars, cmbVars, stVars, cpVars, micVars, rsVars, ssVars, lvVars>>

\* what the actions of one component leave alone
BufOthers == <<winVars, intVars, pipeVars, sysVars, smpVars, serVars, detVars, lcVars, recVars, runVars, dlyVars, cmbVars, stVars, cpVars, micVars, rsVars, ssVars, lvVars>>
WinOthers == <<bufVars, intVars, pipeVars, sysVars, smpVars, serVars, detVars, lcVars, recVars, runVars, dlyVars, cmbVars, stVars, cpVars, micVars, rsVars, ssVars, lvVars>>
IntOthers == <<bufVars, winVars, pipeVars, sysVars, smpVars, serVars, detVars, lcVars, recVars, runVars, dlyVars, cmbVars, stVars, cpVars, micVars, rsVars, ssVars, lvVars>>
PipeOthers == <<bufVars, winVars, intVars, sysVars, smpVars, serVars, detVars, lcVars, recVars, runVars, dlyVars, cmbVars, stVars, cpVars, micVars, rsVars, ssVars, lvVars>>
SysOthers == <<bufVars, winVars, intVars, pipeVars, smpVars, serVars, detVars, lcVars, recVars, runVars, dlyVars, cmbVars, stVars, cpVars, micVars, rsVars, ssVars, lvVars>>
SmpOthers == <<bufVars, winVars, intVars, pipeVars, sysVars, serVars, detVars, lcVars, recVars, runVars, dlyVars, cmbVars, stVars, cpVars, micVars, rsVars, ssVars, lvVars>>
SerOthers == <<bufVars, winVars, intVars, pipeVars, sysVars, smpVars, detVars, lcVars, recVars, runVars, dlyVars, cmbVars, stVars, cpVars, micVars, rsVars, ssVars, lvVars>>
DetOthers == <<bufVars, winVars, intVars, pipeVars, sysVars, smpVars, serVars, lcVars, recVars, runVars, dlyVars, cmbVars, stVars, cpVars, micVars, rsVars, ssVars, lvVars>>
LcOthers == <<bufVars, winVars, intVars, pipeVars, sysVars, smpVars, serVars, detVars, recVars, runVars, dlyVars, cmbVars, stVars, cpVars, micVars, rsVars, ssVars, lvVars>>
RecOthers == <<bufVars, winVars, intVars, pipeVars, sysVars, smpVars, serVars, detVars, lcVars, runVars, dlyVars, cmbVars, stVars, cpVars, micVars, rsVars, ssVars, lvVars>>
RunOthers == <<bufVars, winVars, intVars, pipeVars, sysVars, smpVars, serVars, detVars, lcVars, recVars, dlyVars, cmbVars, stVars, cpVars, micVars, rsVars, ssVars, lvVars>>
DlyOthers == <<bufVars, winVars, intVars, pipeVars, sysVars, smpVars, serVars, detVars, lcVars, recVars, runVars, cmbVars, stVars, cpVars, micVars, rsVars, ssVars, lvVars>>
CmbOthers == <<bufVars, winVars, intVars, pipeVars, sysVars, smpVars, serVars, detVars, lcVars, recVars, runVars, dlyVars, stVars, cpVars, micVars, rsVars, ssVars, lvVars>>
StOthers == <<bufVars, winVars, intVars, pipeVars, sysVars, smpVars, serVars, detVars, lcVars, recVars, runVars, dlyVars, cmbVars, cpVars, micVars, rsVars, ssVars, lvVars>>
CpOthers == <<bufVars, winVars, intVars, pipeVars, sysVars, smpVars, serVars, detVars, lcVars, recVars, runVars, dlyVars, cmbVars, stVars, micVars, rsVars, ssVars, lvVars>>
MicOthers == <<bufVars, winVars, intVars, pipeVars, sysVars, smpVars, serVars, detVars, lcVars, recVars, runVars, dlyVars, cmbVars, stVars, cpVars, rsVars, ssVars, lvVars>>
RsOthers == <<bufVars, winVars, intVars, pipeVars, sysVars, smpVars, serVars, detVars, lcVars, recVars, runVars, dlyVars, cmbVars, stVars, cpVars, micVars, ssVars, lvVars>>
SsOthers == <<bufVars, winVars, intVars, pipeVars, sysVars, smpVars, serVars, detVars, lcVars, recVars, runVars, dlyVars, cmbVars, stVars, cpVars, micVars, rsVars, lvVars>>
LvOthers == <<bufVars, winVars, intVars, pipeVars, sysVars, smpVars, serVars, detVars, lcVars, recVars, runVars, dlyVars, cmbVars, stVars, cpVars, micVars, rsVars, ssVars>>

\* a component that a specification does not exercise stays idle
Idle == "idle"

BufIdle == nb = Idle /\ db = Idle /\ clock = 0 /\ nbHist = Idle /\ dbHist = Idle
           /\ popped = FALSE /\ bufCall = Idle
WinIdle == win = Idle /\ winShape = Idle /\ winFed = 0 /\ winCall = Idle
IntIdle == intA = Idle /\ intB = Idle /\ intFn = Idle /\ intPos = 0 /\ intOut = Idle
PipeIdle == pipeFns = Idle /\ pipeBatch = 0 /\ pipeCall = Idle
SysIdle == sys = Idle /\ sysThread = Idle /\ sysUser = Idle /\ sysBatch = 0
           /\ sysDelivered = Idle /\ sysRaised = Idle /\ sysRecorded = Idle
SmpIdle == smp = Idle /\ smpQueue = Idle /\ smpTimer = Idle /\ smpReader = Idle
           /\ smpUser = Idle /\ smpClock = 0 /\ smpPut = 0 /\ smpReturned = Idle
           /\ smpReads = 0
SerIdle == serFn = Idle /\ serEnc = Idle /\ serDec = Idle
DetIdle == detBatches = Idle /\ detRun = Idle
LcIdle == lc = Idle /\ lcThreads = Idle /\ lcUser = Idle /\ lcStopped = FALSE /\ lcAttempts = 0
RecIdle == rec = Idle /\ recFile = Idle /\ recWritten = Idle /\ recCall = Idle
RunIdle ==
    /\ runWin = Idle /\ runFed = 0 /\ runCalls = 0 /\ runSizes = {}
    /\ runOut = <<>> /\ runWindows = <<>> /\ runErrs = 0
DlyIdle == dlyFn = Idle /\ dlyShape = Idle /\ dlyFed = 0 /\ dlyOut = <<>> /\ dlyCall = Idle
CmbIdle == cmbCombine = Idle /\ cmbPipeline = Idle /\ cmbBatch = 0 /\ cmbOut = Idle
StIdle == stSmp = Idle /\ stHasStart = Idle /\ stUser = Idle /\ stCalls = 0 /\ stThreads = <<>> /\ stReturned = {} /\ stActivated = {} /\ stClock = 0
CpIdle == cpHeap = Idle /\ cpRef = Idle /\ cpMaxlen = Idle /\ cpClock = 0 /\ cpCall = Idle
MicIdle == micHeap = Idle /\ micRef = 0 /\ micRecv = Idle /\ micReader = Idle /\ micReturned = <<>> /\ micChunks = 0 /\ micReads = 0
RsIdle == rs = Idle /\ rsThreads = Idle /\ rsUser = Idle /\ rsRecorders = Idle /\ rsDispatched = {}
SsIdle == ss = Idle /\ ssThreads = Idle /\ ssUser = Idle /\ ssLate = FALSE
LvIdle == lv = Idle /\ lvQueue = <<>> /\ lvTimer = Idle /\ lvThread = Idle /\ lvUser = Idle /\ lvPut = 0 /\ lvDispatched = {}

----------------------------------------------------------------------------
(* Bounds of the model *)

\* largest maxlen a buffer is constructed with
MaxBound == 2
\* largest number of samples handed to the buffers in one behaviour
MaxSamples == 3
\* longest chunk of one extend, and largest n of one popleft
MaxChunk == 2

None == "None"
Shapes == {"()", "(2,)"}
Names == {"a", "b"}

Min(x, y) == IF x <= y THEN x ELSE y
Max(x, y) == IF x >= y THEN x ELSE y

Arr(shape, t) == [shape |-> shape, t |-> t]

\* the samples clock+1 .. clock+n
Fresh(c, n) == [i \in 1..n |-> c + i]

----------------------------------------------------------------------------
(* Python slicing along the time axis *)

\* s[lo:] for lo >= 0 (1-based: drop the first lo)
DropFirst(s, lo) == IF lo >= Len(s) THEN <<>> ELSE SubSeq(s, lo + 1, Len(s))
\* s[:hi] for hi >= 0
TakeFirst(s, hi) == IF hi >= Len(s) THEN s ELSE SubSeq(s, 1, hi)

\* v[..., -n:]  (n = 0 gives v[..., 0:], the whole array)
SliceEnd(s, n) ==
    IF n > 0 THEN DropFirst(s, Max(Len(s) - n, 0))
    ELSE DropFirst(s, Min(0 - n, Len(s)))

\* v[..., :n]  (n < 0 drops the last -n)
SliceFront(s, n) ==
    IF n >= 0 THEN TakeFirst(s, n)
    ELSE TakeFirst(s, Max(Len(s) + n, 0))

----------------------------------------------------------------------------
(* NumpyBuffer *)

NumpyBuffer_empty(cols) ==
    IF cols = None THEN Arr("(0,)", <<>>) ELSE Arr(cols, <<>>)

NumpyBuffer_init(maxlen, n_cols) ==
    [maxlen |-> maxlen, cols |-> n_cols, data |-> NumpyBuffer_empty(n_cols)]

NumpyBuffer_len(b) == Len(b.data.t)

NumpyBuffer_init_cols_if_needed(b, d) ==
    IF Len(d.t) = 0 THEN b.cols
    ELSE IF b.cols = None THEN d.shape ELSE b.cols

\* TRUE when the assertion passes
NumpyBuffer_validate(cols, d) == Len(d.t) = 0 \/ d.shape = cols

NumpyBuffer_slice(d, n, end) ==
    Arr(d.shape, IF end THEN SliceEnd(d.t, n) ELSE SliceFront(d.t, n))

\* d.size == 0: the array has no element
IsSizeZero(d) == Len(d.t) = 0 \/ d.shape = "(0,)"

NumpyBuffer_concat(cols, old, new) ==
    IF IsSizeZero(old) /\ IsSizeZero(new) THEN NumpyBuffer_empty(cols)
    ELSE IF IsSizeZero(old) THEN new
    ELSE IF IsSizeZero(new) THEN old
    ELSE Arr(old.shape, old.t \o new.t)

\* Buffer.extend on a NumpyBuffer: [buf, err]
NumpyBuffer_extend(b, d) ==
    LET cols == NumpyBuffer_init_cols_if_needed(b, d) IN
    IF ~NumpyBuffer_validate(cols, d)
    THEN [buf |-> [b EXCEPT !.cols = cols], err |-> "AssertionError"]
    ELSE LET cat == NumpyBuffer_concat(cols, b.data, d) IN
         [buf |-> [b EXCEPT !.cols = cols,
                            !.data = IF b.maxlen = <<>> THEN cat
                                     ELSE NumpyBuffer_slice(cat, b.maxlen[1], TRUE)],
          err |-> None]

\* (popleft keeping with n_to_keep >= 0: data[..., -0:] is the whole array)
NumpyBuffer_popleft_keep0(b, n) ==
    IF n = 0 THEN [buf |-> b, err |-> None, out |-> NumpyBuffer_empty(b.cols)]
    ELSE IF NumpyBuffer_len(b) = 0
    THEN [buf |-> b, err |-> "IndexError", out |-> NumpyBuffer_empty(b.cols)]
    ELSE LET n_to_keep == Len(b.data.t) - n IN
         [buf |-> [b EXCEPT !.data = IF n_to_keep >= 0
                                     THEN NumpyBuffer_slice(b.data, n_to_keep, TRUE)
                                     ELSE NumpyBuffer_empty(b.cols)],
          err |-> None,
          out |-> NumpyBuffer_slice(b.data, n, FALSE)]

\* Buffer.popleft on a NumpyBuffer: [buf, err, out]
NumpyBuffer_popleft(b, n) ==
    IF n = 0 THEN [buf |-> b, err |-> None, out |-> NumpyBuffer_empty(b.cols)]
    ELSE IF NumpyBuffer_len(b) = 0
    THEN [buf |-> b, err |-> "IndexError", out |-> NumpyBuffer_empty(b.cols)]
    ELSE LET n_to_keep == Len(b.data.t) - n IN
         [buf |-> [b EXCEPT !.data = IF n_to_keep > 0
                                     THEN NumpyBuffer_slice(b.data, n_to_keep, TRUE)
                                     ELSE NumpyBuffer_empty(b.cols)],
          err |-> None,
          out |-> NumpyBuffer_slice(b.data, n, FALSE)]

\* (popping one time-step where popleft_all pops them all)
NumpyBuffer_popleft_one(b) == NumpyBuffer_popleft(b, 1)

\* Buffer.popleft_all: self.popleft(len(self))
NumpyBuffer_popleft_all(b) == NumpyBuffer_popleft(b, NumpyBuffer_len(b))

\* (a view of the newest n time-steps)
NumpyBuffer_view_newest(b, n) == NumpyBuffer_slice(b.data, n, TRUE)

\* Buffer.view(n) with n given: self._slice(self._data, n), where end defaults
\* to False
NumpyBuffer_view(b, n) == NumpyBuffer_slice(b.data, n, FALSE)

\* Buffer.view(n=None) on a NumpyBuffer; n is <<>> for None and <<k>> for k
NumpyBuffer_view_opt(b, n) == IF n = <<>> THEN b.data ELSE NumpyBuffer_view(b, n[1])

----------------------------------------------------------------------------
(* DataBuffer: data is a function from a set of names to arrays *)

EmptyDict == [k \in {} |-> Arr("()", <<>>)]

SetMax(S) == CHOOSE x \in S : \A y \in S : y <= x

DataBuffer_len(data) ==
    IF DOMAIN data = {} THEN 0
    ELSE SetMax({Len(data[k].t) : k \in DOMAIN data})

\* the module function _slice
Dict_slice(data, length, end) ==
    [k \in DOMAIN data |->
        Arr(data[k].shape, IF end THEN SliceEnd(data[k].t, length)
                                  ELSE SliceFront(data[k].t, length))]

DataBuffer_init(maxlen, data) ==
    [maxlen |-> maxlen,
     data |-> IF maxlen # <<>> /\ DataBuffer_len(data) > maxlen[1]
              THEN Dict_slice(data, maxlen[1], TRUE) ELSE data]

\* new is the new data as the ordered list of its items <<k, array>>
Keys(new) == {new[i][1] : i \in 1..Len(new)}

ItemOf(new, k) == new[CHOOSE i \in 1..Len(new) : new[i][1] = k][2]

\* the new data as a dict
AsDict(new) == [k \in Keys(new) |-> ItemOf(new, k)]

DataBuffer_init_cols_if_needed(data, new) ==
    IF DataBuffer_len(data) = 0
    THEN [k \in Keys(new) |-> Arr(ItemOf(new, k).shape, <<>>)]
    ELSE data

\* DataBuffer._concat from item i of new on; result is the dict self._data, which
\* the loop assigns into item by item: [data, err], data being self._data as the
\* loop left it (np.concatenate raises ValueError when the non-time axes differ)
RECURSIVE DataBuffer_concat(_, _, _)
DataBuffer_concat(result, new, i) ==
    IF i > Len(new) THEN [data |-> result, err |-> None]
    ELSE LET k == new[i][1]
             v == new[i][2]
         IN IF k \in DOMAIN result
            THEN IF result[k].shape # v.shape
                 THEN [data |-> result, err |-> "ValueError"]
                 ELSE DataBuffer_concat(
                        [result EXCEPT ![k] = Arr(v.shape, result[k].t \o v.t)], new, i + 1)
            ELSE DataBuffer_concat(
                        [x \in DOMAIN result \cup {k} |-> IF x = k THEN v ELSE result[x]],
                        new, i + 1)

\* DataBuffer.extend (Buffer.extend; no chart is registered): [buf, err]
DataBuffer_extend(b, new) ==
    LET c == DataBuffer_concat(DataBuffer_init_cols_if_needed(b.data, new), new, 1) IN
    IF c.err # None THEN [buf |-> [b EXCEPT !.data = c.data], err |-> c.err]
    ELSE [buf |-> [b EXCEPT !.data = IF b.maxlen = <<>> THEN c.data
                                     ELSE Dict_slice(c.data, b.maxlen[1], TRUE)],
          err |-> None]

\* Buffer.popleft on a DataBuffer: self._data is a dict, so self._data.shape raises
\* AttributeError once the two early returns are passed: [buf, err, out]
DataBuffer_popleft(b, n) ==
    IF n = 0 THEN [buf |-> b, err |-> None, out |-> EmptyDict]
    ELSE IF DataBuffer_len(b.data) = 0
    THEN [buf |-> b, err |-> "IndexError", out |-> EmptyDict]
    ELSE [buf |-> b, err |-> "AttributeError", out |-> EmptyDict]

\* Buffer.view(n=None) on a DataBuffer: DataBuffer._slice(data, n) passes its own
\* default end=False on to the module function _slice
DataBuffer_view_opt(b, n) == IF n = <<>> THEN b.data ELSE Dict_slice(b.data, n[1], FALSE)

DataBuffer_popleft_all(b) == DataBuffer_popleft(b, DataBuffer_len(b.data))

----------------------------------------------------------------------------
(* The buffer under test: a NumpyBuffer or a DataBuffer, chosen at construction *)

Maxlens == {<<>>} \cup {<<m>> : m \in 1..MaxBound}

\* the mappings a DataBuffer is pre-seeded with
\* (the n seeded samples are 1-n .. 0, the samples added later 1, 2, ...)
Seeds ==
    {EmptyDict}
    \cup {[k \in {"a"} |-> Arr("()", Fresh(0 - n, n))] : n \in 1..MaxChunk}
    \cup {[k \in Names |-> IF k = "a" THEN Arr("()", Fresh(0 - n, n))
                                      ELSE Arr("(2,)", Fresh(0 - m, m))]
            : n \in 0..MaxChunk, m \in 0..1}

SeedHist(seed) == [k \in Names |-> IF k \in DOMAIN seed THEN seed[k].t ELSE <<>>]

NoCall == [op |-> "init", arg |-> 0, err |-> None]

BufInit ==
    /\ clock = 0
    /\ nbHist = <<>>
    /\ popped = FALSE
    /\ bufCall = NoCall
    /\ \/ /\ \E m \in Maxlens, c \in {None} \cup Shapes : nb = NumpyBuffer_init(m, c)
          /\ db = [kind |-> "unused"]
          /\ dbHist = [k \in Names |-> <<>>]
       \/ /\ nb = [kind |-> "unused"]
          /\ \E m \in Maxlens, seed \in Seeds :
                /\ db = DataBuffer_init(m, seed)
                /\ dbHist = SeedHist(seed)

IsNumpy == "maxlen" \in DOMAIN nb
IsData == "maxlen" \in DOMAIN db

\* extend(data) on the NumpyBuffer with a chunk of n fresh samples of some shape
NbExtend ==
    /\ IsNumpy
    /\ \E n \in 0..MaxChunk, shape \in Shapes :
          /\ clock + n <= MaxSamples
          /\ LET d == Arr(shape, Fresh(clock, n))
                 r == NumpyBuffer_extend(nb, d)
             IN /\ nb' = r.buf
                /\ nbHist' = IF r.err = None THEN nbHist \o d.t ELSE nbHist
                /\ clock' = clock + n
                /\ bufCall' = [op |-> "extend", arg |-> d, err |-> r.err, pre |-> nb]
    /\ UNCHANGED <<db, dbHist, popped>>
    /\ UNCHANGED BufOthers

\* append(pt): extend(pt[..., None])
NbAppend ==
    /\ IsNumpy
    /\ clock + 1 <= MaxSamples
    /\ \E shape \in Shapes :
          LET d == Arr(shape, Fresh(clock, 1))
              r == NumpyBuffer_extend(nb, d)
          IN /\ nb' = r.buf
             /\ nbHist' = IF r.err = None THEN nbHist \o d.t ELSE nbHist
             /\ clock' = clock + 1
             /\ bufCall' = [op |-> "append", arg |-> d, err |-> r.err, pre |-> nb]
    /\ UNCHANGED <<db, dbHist, popped>>
    /\ UNCHANGED BufOthers

NbPopleft ==
    /\ IsNumpy
    /\ \E n \in 0..MaxChunk :
          LET r == NumpyBuffer_popleft(nb, n) IN
          /\ nb' = r.buf
          /\ popped' = (popped \/ r.buf # nb)
          /\ bufCall' = [op |-> "popleft", arg |-> n, err |-> r.err, pre |-> nb, out |-> r.out]
    /\ UNCHANGED <<db, dbHist, nbHist, clock>>
    /\ UNCHANGED BufOthers

NbPopleftAll ==
    /\ IsNumpy
    /\ LET r == NumpyBuffer_popleft_all(nb) IN
          /\ nb' = r.buf
          /\ popped' = (popped \/ r.buf # nb)
          /\ bufCall' = [op |-> "popleft_all", arg |-> NumpyBuffer_len(nb), err |-> r.err,
                         pre |-> nb, out |-> r.out]
    /\ UNCHANGED <<db, dbHist, nbHist, clock>>
    /\ UNCHANGED BufOthers

\* the ordered item lists extend is called with: distinct keys, each with a shape
\* and a chunk of fresh samples (two channels extended together get chunks of the
\* same length; a channel extended alone makes the lengths differ)
Item(k, shape, n) == <<k, Arr(shape, Fresh(clock, n))>>

NewData ==
    {<<>>}
    \cup {<<Item(k, sh, n)>> : k \in Names, sh \in Shapes, n \in 0..MaxChunk}
    \cup {<<Item(k1, sh1, n), Item(k2, sh2, n)>> :
            k1 \in Names, k2 \in Names, sh1 \in Shapes, sh2 \in Shapes, n \in 0..MaxChunk}

ChunkLen(new) == IF new = <<>> THEN 0 ELSE SetMax({Len(new[i][2].t) : i \in 1..Len(new)})

\* the samples of new that the call concatenated into (or stored as) channel k
StoredBy(before, after, new, k) ==
    IF k \in Keys(new) /\ k \in DOMAIN after
       /\ after[k].t = (IF k \in DOMAIN before THEN before[k].t ELSE <<>>) \o ItemOf(new, k).t
    THEN ItemOf(new, k).t ELSE <<>>

DbExtendWith(op, new) ==
    LET d0 == DataBuffer_init_cols_if_needed(db.data, new)
        c == DataBuffer_concat(d0, new, 1)
        r == DataBuffer_extend(db, new)
    IN /\ db' = r.buf
       /\ dbHist' = [k \in Names |-> dbHist[k] \o StoredBy(d0, c.data, new, k)]
       /\ clock' = clock + ChunkLen(new)
       /\ bufCall' = [op |-> op, arg |-> new, err |-> r.err, pre |-> db]

\* extend(data) on the DataBuffer
DbExtend ==
    /\ IsData
    /\ \E new \in NewData :
          /\ Cardinality(Keys(new)) = Len(new)
          /\ clock + ChunkLen(new) <= MaxSamples
          /\ DbExtendWith("extend", new)
    /\ UNCHANGED <<nb, nbHist, popped>>
    /\ UNCHANGED BufOthers

\* append(pt): every value of pt becomes a chunk of one sample
DbAppend ==
    /\ IsData
    /\ clock + 1 <= MaxSamples
    /\ \E new \in NewData :
          /\ Cardinality(Keys(new)) = Len(new)
          /\ \A i \in 1..Len(new) : Len(new[i][2].t) = 1
          /\ DbExtendWith("append", new)
    /\ UNCHANGED <<nb, nbHist, popped>>
    /\ UNCHANGED BufOthers

DbPopleft ==
    /\ IsData
    /\ \E n \in 0..MaxChunk :
          LET r == DataBuffer_popleft(db, n) IN
          /\ db' = r.buf
          /\ popped' = (popped \/ r.buf # db)
          /\ bufCall' = [op |-> "popleft", arg |-> n, err |-> r.err, pre |-> db, out |-> r.out]
    /\ UNCHANGED <<nb, nbHist, dbHist, clock>>
    /\ UNCHANGED BufOthers

DbPopleftAll ==
    /\ IsData
    /\ LET r == DataBuffer_popleft_all(db) IN
          /\ db' = r.buf
          /\ popped' = (popped \/ r.buf # db)
          /\ bufCall' = [op |-> "popleft_all", arg |-> DataBuffer_len(db.data), err |-> r.err,
                         pre |-> db, out |-> r.out]
    /\ UNCHANGED <<nb, nbHist, dbHist, clock>>
    /\ UNCHANGED BufOthers

\* the arguments of view: None, or a count
ViewArgs == {<<>>} \cup {<<n>> : n \in 0..MaxChunk}

NbView ==
    /\ IsNumpy
    /\ \E n \in ViewArgs :
          bufCall' = [op |-> "view", arg |-> n, err |-> None, pre |-> nb,
                      out |-> NumpyBuffer_view_opt(nb, n)]
    /\ UNCHANGED <<nb, db, dbHist, nbHist, clock, popped>>
    /\ UNCHANGED BufOthers

DbView ==
    /\ IsData
    /\ \E n \in ViewArgs :
          bufCall' = [op |-> "view", arg |-> n, err |-> None, pre |-> db,
                      out |-> DataBuffer_view_opt(db, n)]
    /\ UNCHANGED <<nb, db, dbHist, nbHist, clock, popped>>
    /\ UNCHANGED BufOthers

BufNext ==
    \/ NbExtend \/ NbAppend \/ NbPopleft \/ NbPopleftAll \/ NbView
    \/ DbExtend \/ DbAppend \/ DbPopleft \/ DbPopleftAll \/ DbView

NumpyNext == NbExtend \/ NbAppend \/ NbPopleft \/ NbPopleftAll \/ NbView


----------------------------------------------------------------------------
(* WindowedSignalFunction (signals/windowed.py's WindowedSignal has the same body) *)

\* largest window_size of a transform
MaxWin == 3
\* largest number of samples fed to one transform
MaxFed == 5

\* numpy's len(array): the size of the first axis, which is the time axis only
\* for a one-dimensional array
PyLen(d) == IF d.shape = "()" THEN Len(d.t) ELSE 2

\* upsample(signal, factor): signal.repeat(factor, axis=-1)
RECURSIVE Repeat(_, _)
Repeat(t, factor) ==
    IF t = <<>> THEN <<>>
    ELSE [i \in 1..factor |-> t[1]] \o Repeat(Tail(t), factor)

upsample(d, factor) == Arr(d.shape, Repeat(d.t, factor))

\* the per-window computation: one time-step of the output shape, here carrying
\* the first sample of its window (samples are 1, 2, ...; the default value is 0)
windowed_fn(inputs, output_shape) == Arr(output_shape, <<inputs.t[1]>>)

DefaultValue == 0

OutputShape == "(2,)"

init_windowing(window_size, window_overlap, up) ==
    LET ob == NumpyBuffer_init(<<>>, OutputShape) IN
    [win_size |-> window_size,
     window_overlap |-> window_overlap,
     num_to_pop |-> window_size - window_overlap,
     input_buffer |-> NumpyBuffer_init(<<>>, None),
     output_buffer |->
        IF up THEN NumpyBuffer_extend(ob,
                      Arr(OutputShape, [i \in 1..(window_size - 1) |-> DefaultValue])).buf
        ELSE ob,
     upsample |-> up]

\* the test of the drain loop
WindowReady_strict(w) == NumpyBuffer_len(w.input_buffer) > w.win_size

WindowReady(w) == NumpyBuffer_len(w.input_buffer) >= w.win_size

\* the drain loop of __call__: [w, inputs, n, seen, err], w the instance after the
\* loop, inputs the local variable inputs after it (the last window viewed, or the
\* chunk when no window was ready), n the number of windows computed and seen the
\* arguments of windowed_fn in call order.  The loop
\* test reads the input buffer only, so an iteration that does not shorten it
\* is repeated for ever ("diverges"); the per-window computation raises on an
\* empty window, and repeat() on a negative factor.
RECURSIVE Drain(_, _, _, _)
Drain(w, inputs, n, seen) ==
    IF ~WindowReady(w)
    THEN [w |-> w, inputs |-> inputs, n |-> n, seen |-> seen, err |-> None]
    ELSE LET window == NumpyBuffer_view(w.input_buffer, w.win_size)
             popped_ == NumpyBuffer_popleft(w.input_buffer, w.num_to_pop)
             out == windowed_fn(window, OutputShape)
             upsampled == IF w.upsample THEN upsample(out, w.num_to_pop) ELSE out
         IN IF popped_.err # None
            THEN [w |-> w, inputs |-> window, n |-> n, seen |-> seen, err |-> popped_.err]
            ELSE IF window.t = <<>> \/ (w.upsample /\ w.num_to_pop < 0)
            THEN [w |-> [w EXCEPT !.input_buffer = popped_.buf], inputs |-> window,
                  n |-> n, seen |-> Append(seen, window.t), err |-> "ValueError"]
            ELSE IF NumpyBuffer_len(popped_.buf) >= NumpyBuffer_len(w.input_buffer)
            THEN [w |-> w, inputs |-> window, n |-> n, seen |-> Append(seen, window.t),
                  err |-> "diverges"]
            ELSE Drain([w EXCEPT !.input_buffer = popped_.buf,
                                 !.output_buffer =
                                     NumpyBuffer_extend(w.output_buffer, upsampled).buf],
                       window, n + 1, Append(seen, window.t))

\* __call__(inputs): [w, err, out, n, seen]
Windowed_call(w, chunk) ==
    LET ext == NumpyBuffer_extend(w.input_buffer, chunk) IN
    IF ext.err # None
    THEN [w |-> w, err |-> ext.err, out |-> NumpyBuffer_empty(OutputShape), n |-> 0,
          seen |-> <<>>]
    ELSE LET d == Drain([w EXCEPT !.input_buffer = ext.buf], chunk, 0, <<>>) IN
         IF d.err # None
         THEN [w |-> d.w, err |-> d.err, out |-> NumpyBuffer_empty(OutputShape), n |-> d.n,
               seen |-> d.seen]
         ELSE LET r == IF w.upsample
                       THEN NumpyBuffer_popleft(d.w.output_buffer, PyLen(d.inputs))
                       ELSE NumpyBuffer_popleft_all(d.w.output_buffer)
              IN [w |-> [d.w EXCEPT !.output_buffer = r.buf], err |-> r.err, out |-> r.out,
                  n |-> d.n, seen |-> d.seen]

\* the construction of a windowed transform with any integers: init_windowing
\* checks nothing; np.ones raises ValueError on the negative length
\* window_size - 1 of the upsample padding: [w, err]
WindowedSignalFunction_new(window_size, window_overlap, up) ==
    IF up /\ window_size - 1 < 0
    THEN [w |-> [win_size |-> window_size, window_overlap |-> window_overlap],
          err |-> "ValueError"]
    ELSE [w |-> init_windowing(window_size, window_overlap, up), err |-> None]

\* the instance exists
Constructed(w) == "input_buffer" \in DOMAIN w

WinInit ==
    /\ \E ws \in 1..MaxWin, ov \in 0..(MaxWin - 1), up \in BOOLEAN :
          /\ ov < ws
          /\ win = init_windowing(ws, ov, up)
    /\ winShape \in Shapes
    /\ winFed = 0
    /\ winCall = NoCall

\* construction with any window_size and window_overlap
WinConfigInit ==
    /\ \E ws \in 0..MaxWin, ov \in 0..MaxWin, up \in BOOLEAN :
          LET c == WindowedSignalFunction_new(ws, ov, up) IN
          /\ win = c.w
          /\ winCall = [op |-> "init", arg |-> 0, err |-> c.err]
    /\ winShape \in Shapes
    /\ winFed = 0

\* one call with a chunk of k new samples, on an instance that exists and is
\* not inside a call that never returns
WinCall ==
    \E k \in 0..MaxChunk :
        /\ Constructed(win)
        /\ winCall.err # "diverges"
        /\ winFed + k <= MaxFed
        /\ LET r == Windowed_call(win, Arr(winShape, Fresh(winFed, k))) IN
              /\ win' = r.w
              /\ winCall' = [op |-> "call", arg |-> k, err |-> r.err, out |-> r.out,
                             n |-> r.n, pre |-> win]
        /\ winFed' = winFed + k
        /\ UNCHANGED winShape
        /\ UNCHANGED WinOthers

WinNext == WinCall

----------------------------------------------------------------------------
(* Integrate (signal_functions/arithmetic.py), on one-dimensional signals *)

\* longest input signal
MaxN == 3
AVals == {1, 2}
\* (even, so that the halves of cumulative_trapezoid are whole numbers)
BVals == {0, 2, 4}

RECURSIVE CumSum(_)
CumSum(s) ==
    IF s = <<>> THEN <<>>
    ELSE LET front == CumSum(SubSeq(s, 1, Len(s) - 1)) IN
         Append(front, (IF front = <<>> THEN 0 ELSE front[Len(front)]) + s[Len(s)])

\* np.diff(b, prepend=p)
Diff(b, p) == [i \in 1..Len(b) |-> b[i] - (IF i = 1 THEN p ELSE b[i - 1])]

\* scipy's cumulative_trapezoid(y=a, x=b, initial=0)
cumulative_trapezoid(a, b) ==
    CumSum([i \in 1..Len(a) |->
        IF i = 1 THEN 0 ELSE ((b[i] - b[i - 1]) * (a[i] + a[i - 1])) \div 2])

Integrate_init(use_trapz) == [trapezoid |-> use_trapz, state |-> 0, last_b |-> <<>>]

\* Integrate.__call__(a, b): [fn, val]; last_b is <<>> for None, else b[-1:]
Integrate_call(fn, a, b) ==
    LET val == IF fn.trapezoid
               THEN LET ct == cumulative_trapezoid(a, b) IN
                    [i \in 1..Len(a) |-> fn.state + ct[i]]
               ELSE LET prepend_b == IF fn.last_b = <<>> THEN b[1] ELSE fn.last_b[1]
                        d_b == Diff(b, prepend_b)
                        cs == CumSum(a)
                    IN [i \in 1..Len(a) |-> fn.state + cs[i] * d_b[i]]
    IN [fn |-> IF Len(val) > 0
               THEN [fn EXCEPT !.state = val[Len(val)], !.last_b = <<b[Len(b)]>>]
               ELSE fn,
        val |-> val]

IntInit ==
    /\ \E n \in 1..MaxN :
          /\ intA \in [1..n -> AVals]
          /\ intB \in [1..n -> BVals]
    /\ intFn \in {Integrate_init(t) : t \in BOOLEAN}
    /\ intPos = 0
    /\ intOut = <<>>

\* the next call, with the next k samples of a and b
IntCall ==
    \E k \in 1..MaxN :
        /\ intPos + k <= Len(intA)
        /\ LET r == Integrate_call(intFn, SubSeq(intA, intPos + 1, intPos + k),
                                          SubSeq(intB, intPos + 1, intPos + k))
           IN /\ intFn' = r.fn
              /\ intOut' = intOut \o r.val
        /\ intPos' = intPos + k
        /\ UNCHANGED <<intA, intB>>
        /\ UNCHANGED IntOthers

IntNext == IntCall

----------------------------------------------------------------------------
(* Differentiate (signal_functions/arithmetic.py), on one-dimensional signals *)

Abs(x) == IF x < 0 THEN 0 - x ELSE x

RECURSIVE GCD(_, _)
GCD(x, y) == IF y = 0 THEN x ELSE GCD(y, x % y)

\* the quotient num / den of two integers, den not 0, as the fraction in lowest
\* terms with a positive denominator
Quot(num, den) ==
    LET g == GCD(Abs(num), Abs(den))
        sign == IF den < 0 THEN 0 - 1 ELSE 1
    IN <<(sign * num) \div g, Abs(den) \div g>>

\* np.arange(n)
arange(n) == [i \in 1..n |-> i - 1]

\* has_b: input_b is not None, so the function is called with (a, b); without it
\* the function is called with a alone.  last_a, last_b are <<>> for None
Differentiate_init(has_b) == [has_b |-> has_b, last_a |-> <<>>, last_b |-> <<>>]

\* Differentiate.__call__(a, b=None) on a non-empty chunk: [fn, val]
Differentiate_call(fn, a, b_arg) ==
    LET b == IF fn.has_b THEN b_arg ELSE arange(Len(a))
        prepend_a == IF fn.last_a = <<>> THEN a[1] ELSE fn.last_a[1]
        prepend_b == IF fn.last_b = <<>> THEN b[1] ELSE fn.last_b[1]
        d_a == Diff(a, prepend_a)
        d_b == Diff(b, prepend_b)
    IN [fn |-> [fn EXCEPT !.last_a = <<a[Len(a)]>>, !.last_b = <<b[Len(b)]>>],
        val |-> [i \in 1..Len(a) |->
                    IF d_b[i] = 0 THEN Quot(0, 1) ELSE Quot(d_a[i], d_b[i])]]

DiffInit ==
    /\ \E n \in 1..MaxN, has_b \in BOOLEAN :
          /\ intA \in [1..n -> AVals]
          /\ intB \in (IF has_b THEN [1..n -> BVals] ELSE {<<>>})
          /\ intFn = Differentiate_init(has_b)
    /\ intPos = 0
    /\ intOut = <<>>

\* the next call, with the next k samples of a (and of b)
DiffCall ==
    \E k \in 1..MaxN :
        /\ intPos + k <= Len(intA)
        /\ LET r == Differentiate_call(intFn, SubSeq(intA, intPos + 1, intPos + k),
                        IF intFn.has_b THEN SubSeq(intB, intPos + 1, intPos + k) ELSE <<>>)
           IN /\ intFn' = r.fn
              /\ intOut' = intOut \o r.val
        /\ intPos' = intPos + k
        /\ UNCHANGED <<intA, intB>>
        /\ UNCHANGED IntOthers

DiffNext == DiffCall

----------------------------------------------------------------------------
(* compute_signal_functions (functions/base.py) *)

\* longest list of signal functions
MaxFns == 3
\* number of batches one behaviour computes
MaxBatches == 2

\* A channel value: the raw channel nm of batch b, or what the function named nm
\* returned for the inputs args on batch b; n is its length along the time axis.
RawVal(nm, b, n) == [kind |-> "raw", name |-> nm, batch |-> b, n |-> n, args |-> <<>>]
FnVal(nm, b, n, args) == [kind |-> "fn", name |-> nm, batch |-> b, n |-> n, args |-> args]

SignalFn(nm, inputs) == [name |-> nm, input_signals |-> inputs]

\* the signal functions the lists are made of: x from a, y from x and b, one that
\* overwrites the raw channel a, one that rewrites x from x
FnCatalog ==
    {SignalFn("x", <<"a">>), SignalFn("y", <<"x", "b">>),
     SignalFn("a", <<"a">>), SignalFn("x", <<"x">>)}

FnLists(maxn) == UNION {[1..n -> FnCatalog] : n \in 0..maxn}

\* the drained batch b of n samples with the raw channels keys
RawBuffer(keys, b, n) == [k \in keys |-> RawVal(k, b, n)]

\* re.match(r"(.+)_(\d+)", k) on the names of the model: the groups (key, index)
\* of the names the pattern matches at their start, the key None for the others
Match(k) ==
    CASE k = "b_1" -> [key |-> "b", index |-> 1]
      [] k = "b_2" -> [key |-> "b", index |-> 2]
      [] k = "q_0" -> [key |-> "q", index |-> 0]
      [] k = "b_1z" -> [key |-> "b", index |-> 1]
      [] OTHER -> [key |-> None, index |-> 0]

\* the length of the first axis of a value: the raw channel b has two rows, every
\* other value is one-dimensional and its first axis is the time axis
FirstAxis(v) == IF v.kind = "raw" /\ v.name = "b" THEN 2 ELSE v.n

\* v[index] for an index within the first axis
RowVal(v, index) ==
    [kind |-> "row", name |-> v.name, batch |-> v.batch, n |-> v.n, args |-> <<v>>,
     row |-> index]

\* DataBuffer.__getitem__: [err, named, v], named the channel the error's
\* message names (None when it names none).  A name that is no key and that the
\* pattern matches (m, the match) is looked up as self._data[key][int(index)]:
\* KeyError(key) from the dict, IndexError from the array
DataBuffer_getitem_matched(data, k, m) ==
    IF m.key = None
    THEN [err |-> "KeyError", named |-> k, v |-> RawVal(k, 0, 0)]
    ELSE IF m.key \notin DOMAIN data
    THEN [err |-> "KeyError", named |-> m.key, v |-> RawVal(k, 0, 0)]
    ELSE IF m.index >= FirstAxis(data[m.key])
    THEN [err |-> "IndexError", named |-> None, v |-> RawVal(k, 0, 0)]
    ELSE [err |-> None, named |-> None, v |-> RowVal(data[m.key], m.index)]

DataBuffer_getitem(data, k) ==
    IF k \in DOMAIN data THEN [err |-> None, named |-> None, v |-> data[k]]
    ELSE DataBuffer_getitem_matched(data, k, Match(k))

\* the first lookup of tuple(data[name] for name in signal.input_signals) that
\* raises: [err, named]
ErrorOf(g) == [err |-> g.err, named |-> g.named]

first_error(data, fn, raising) ==
    IF raising = {} THEN [err |-> None, named |-> None]
    ELSE ErrorOf(DataBuffer_getitem(data,
                    fn.input_signals[CHOOSE k \in raising : \A h \in raising : k <= h]))

gather_error(data, fn) ==
    first_error(data, fn, {k \in 1..Len(fn.input_signals) :
                              DataBuffer_getitem(data, fn.input_signals[k]).err # None})

DataBuffer_setitem(data, key, value) ==
    [x \in DOMAIN data \cup {key} |-> IF x = key THEN value ELSE data[x]]

\* (the inputs read from the buffer as it was passed in)
gather_inputs_stale(data, orig, fn) ==
    [k \in 1..Len(fn.input_signals) |->
        IF fn.input_signals[k] \in DOMAIN orig THEN orig[fn.input_signals[k]]
        ELSE data[fn.input_signals[k]]]

\* tuple(data[name] for name in signal.input_signals), every name present;
\* data is the copy being computed, orig the buffer passed in
gather_inputs(data, orig, fn) ==
    [k \in 1..Len(fn.input_signals) |-> DataBuffer_getitem(data, fn.input_signals[k]).v]

\* one iteration of the for loop with the error ge of gathering the inputs and
\* the inputs gathered; raised and logged are what the except clause leaves
\* when the function raises: [data, err, called, inputs, logged, named]
iteration(data, fn, raises, ge, inputs, raised, logged) ==
    IF ge.err # None
    THEN [data |-> data, err |-> ge.err, called |-> FALSE, inputs |-> <<>>, logged |-> FALSE,
          named |-> ge.named]
    ELSE IF raises
    THEN [data |-> data, err |-> raised, called |-> TRUE, inputs |-> inputs,
          logged |-> logged, named |-> None]
    ELSE [data |-> DataBuffer_setitem(data, fn.name,
                      FnVal(fn.name, inputs[1].batch, inputs[1].n, inputs)),
          err |-> None, called |-> TRUE, inputs |-> inputs, logged |-> FALSE,
          named |-> None]

\* (an iteration that goes on to the next function when the call raises)
compute_iteration_skip(data, orig, fn, raises) ==
    iteration(data, fn, raises, gather_error(data, fn), gather_inputs(data, orig, fn),
              None, TRUE)

\* (an iteration that re-raises without the log entry)
compute_iteration_nolog(data, orig, fn, raises) ==
    iteration(data, fn, raises, gather_error(data, fn), gather_inputs(data, orig, fn),
              "Exception", FALSE)

\* one iteration of the for loop: gather the inputs (the error of the first
\* lookup that fails, raised outside the try), call the function, store its
\* output; raises says whether the function raises on this batch:
\* [data, err, called, inputs, logged, named]
compute_iteration(data, orig, fn, raises) ==
    iteration(data, fn, raises, gather_error(data, fn), gather_inputs(data, orig, fn),
              "Exception", TRUE)

\* the for loop from function i on; failAt is the function that raises on this
\* batch (0: none); calls lists the invocations made: [fn, inputs, output]; log
\* lists the names that logger.exception was called with
RECURSIVE compute_loop(_, _, _, _, _, _)
compute_loop(data, orig, fns, i, failAt, calls) ==
    IF i > Len(fns)
    THEN [data |-> data, err |-> None, calls |-> calls, log |-> <<>>, named |-> None]
    ELSE LET it == compute_iteration(data, orig, fns[i], failAt = i)
             calls2 == IF it.called
                       THEN Append(calls, [fn |-> i, inputs |-> it.inputs,
                                           output |-> IF it.err = None THEN it.data[fns[i].name]
                                                      ELSE RawVal("raised", 0, 0)])
                       ELSE calls
             entry == IF it.logged THEN <<fns[i].name>> ELSE <<>>
         IN IF it.err # None
            THEN [data |-> it.data, err |-> it.err, calls |-> calls2, log |-> entry,
                  named |-> it.named]
            ELSE LET r == compute_loop(it.data, orig, fns, i + 1, failAt, calls2)
                 IN [r EXCEPT !.log = entry \o @]

\* compute_signal_functions(data, signal_functions): data = data.copy(), then the
\* loop; on an error data is the local copy as the loop left it
compute_signal_functions(data, fns, failAt) == compute_loop(data, data, fns, 1, failAt, <<>>)

\* The same call on the objects: heap maps a reference to the dict of the
\* DataBuffer it names.
\* (a copy that is the buffer itself)
DataBuffer_copy_alias(heap, r) == [heap |-> heap, ref |-> r]

\* DataBuffer.copy: DataBuffer(self.maxlen, self._data.copy()) is a new buffer on a
\* new dict with the same items: [heap, ref]
DataBuffer_copy(heap, r) ==
    LET new == Cardinality(DOMAIN heap) + 1
    IN [heap |-> [x \in DOMAIN heap \cup {new} |-> IF x = new THEN heap[r] ELSE heap[x]],
        ref |-> new]

\* compute_signal_functions on the buffer named r: the loop stores into the
\* copy's dict; ret is the buffer returned (0 when the call raises)
compute_signal_functions_ref(heap, r, fns, failAt) ==
    LET c == DataBuffer_copy(heap, r)
        res == compute_loop(c.heap[c.ref], heap[r], fns, 1, failAt, <<>>)
    IN [heap |-> [c.heap EXCEPT ![c.ref] = res.data],
        ret |-> IF res.err = None THEN c.ref ELSE 0,
        local |-> c.ref, err |-> res.err, calls |-> res.calls, log |-> res.log,
        named |-> res.named]

\* SignalSystem._compute_derived(data): the same loop on the buffer itself
SignalSystem_compute_derived(heap, r, fns, failAt) ==
    LET res == compute_loop(heap[r], heap[r], fns, 1, failAt, <<>>)
    IN [heap |-> [heap EXCEPT ![r] = res.data],
        ret |-> IF res.err = None THEN r ELSE 0,
        local |-> r, err |-> res.err, calls |-> res.calls, log |-> res.log,
        named |-> res.named]

PipeInit ==
    /\ pipeFns \in FnLists(MaxFns)
    /\ pipeBatch = 0
    /\ pipeCall = NoCall

\* one batch through the list: the caller holds the drained buffer (reference 1)
\* and calls compute_signal_functions, or SignalSystem._compute_derived
PipeCompute ==
    /\ pipeBatch < MaxBatches
    /\ \E keys \in {{"a"}, {"a", "b"}}, n \in 1..2, failAt \in 0..Len(pipeFns),
          via \in {"compute_signal_functions", "_compute_derived"} :
          LET data == RawBuffer(keys, pipeBatch + 1, n)
              heap == [x \in {1} |-> data]
              r == IF via = "compute_signal_functions"
                   THEN compute_signal_functions_ref(heap, 1, pipeFns, failAt)
                   ELSE SignalSystem_compute_derived(heap, 1, pipeFns, failAt)
          IN pipeCall' = [op |-> "compute", via |-> via, data_in |-> data, failAt |-> failAt,
                          err |-> r.err, out |-> r.heap[r.local], calls |-> r.calls,
                          log |-> r.log, caller |-> r.heap[1], returned |-> r.ret # 0,
                          named |-> r.named]
    /\ pipeBatch' = pipeBatch + 1
    /\ UNCHANGED pipeFns
    /\ UNCHANGED PipeOthers

PipeNext == PipeCompute

\* longest list of functions with indexed input names
MaxIdxFns == 2

\* functions that read a row of b, a row b does not have, a row of a channel
\* no source delivers, a name that starts like a row of b, a channel that no
\* source delivers, and two that read channels by their names
IdxCatalog ==
    {SignalFn("y", <<"b_1">>), SignalFn("y", <<"b_2">>), SignalFn("y", <<"q_0">>),
     SignalFn("y", <<"b_1z">>), SignalFn("z", <<"q">>),
     SignalFn("x", <<"a">>), SignalFn("y", <<"x", "b">>)}

PipeIdxInit ==
    /\ pipeFns \in UNION {[1..n -> IdxCatalog] : n \in 0..MaxIdxFns}
    /\ pipeBatch = 0
    /\ pipeCall = NoCall

----------------------------------------------------------------------------
(* The System processing loop (system.py) *)

\* number of non-empty batches the source returns in one behaviour
MaxSysBatches == 2
\* longest list of functions of a System
MaxSysFns == 2

FeedIds == {"f", "g"}

\* the signal functions a System's list is made of: x from a, y from x and b
SysCatalog == {SignalFn("x", <<"a">>), SignalFn("y", <<"x", "b">>)}
SysFnLists(maxn) == UNION {[1..n -> SysCatalog] : n \in 0..maxn}

\* len() of a buffer of channel values
Batch_len(data) ==
    IF DOMAIN data = {} THEN 0 ELSE SetMax({data[k].n : k \in DOMAIN data})

\* main_thread before start(): no position, empty locals
NoThread ==
    [pc |-> "none", batch |-> 0, raw |-> EmptyDict, data |-> EmptyDict, idx |-> 0,
     feeds |-> <<>>, fns |-> <<>>, err |-> None]

SeqRemove(s, x) == SelectSeq(s, LAMBDA y : y # x)
InSeq(s, x) == \E i \in 1..Len(s) : s[i] = x

\* System.__init__
\* (a _read that records after the pipeline has run)
System_read_step_late(pc, nonempty) ==
    CASE pc = "read" -> IF nonempty THEN "compute" ELSE "record"
      [] pc = "compute" -> "record"
      [] pc = "record" -> "check"

\* the order of the statements of _read: the source is read, the recorder is
\* written to, the pipeline is run if the buffer is non-empty, and _read returns
\* to the test of _busy_loop
System_read_step(pc, nonempty) ==
    CASE pc = "read" -> "record"
      [] pc = "record" -> IF nonempty THEN "compute" ELSE "check"
      [] pc = "compute" -> "check"

SysInit ==
    /\ \E fns \in SysFnLists(1) :
          sys = [functions |-> fns, data_feeds |-> <<>>, is_active |-> FALSE,
                 recorder |-> None, is_recording |-> FALSE, source |-> "stopped"]
    /\ sysThread = NoThread
    /\ sysUser = "ready"
    /\ sysBatch = 0
    /\ sysDelivered = {}
    /\ sysRaised = {}
    /\ sysRecorded = <<>>

\* start(), called while no main_thread is alive
SysStart ==
    /\ sysUser = "ready"
    /\ sysThread.pc \in {"none", "done", "dead"}
    /\ sys' = [sys EXCEPT !.source = "started", !.is_active = TRUE]
    /\ sysThread' = [NoThread EXCEPT !.pc = "while"]
    /\ UNCHANGED <<sysUser, sysBatch, sysDelivered, sysRaised, sysRecorded>>
    /\ UNCHANGED SysOthers

\* stop() up to main_thread.join()
SysStopBegin ==
    /\ sysUser = "ready"
    /\ sysThread.pc # "none"
    /\ sys' = [sys EXCEPT !.is_active = FALSE]
    /\ sysUser' = "join"
    /\ UNCHANGED <<sysThread, sysBatch, sysDelivered, sysRaised, sysRecorded>>
    /\ UNCHANGED SysOthers

\* stop() once main_thread has ended: stop_recording() if recording, source.stop()
SysStopJoin ==
    /\ sysUser = "join"
    /\ sysThread.pc \in {"done", "dead"}
    /\ sys' = [sys EXCEPT !.recorder = IF sys.is_recording THEN None ELSE @,
                          !.is_recording = FALSE, !.source = "stopped"]
    /\ sysUser' = "ready"
    /\ UNCHANGED <<sysThread, sysBatch, sysDelivered, sysRaised, sysRecorded>>
    /\ UNCHANGED SysOthers

\* register_data_feed(feed_id, callback): ValueError for an id already there
SysRegisterDataFeed ==
    /\ sysUser = "ready"
    /\ \E id \in FeedIds :
          sys' = IF InSeq(sys.data_feeds, id) THEN sys
                 ELSE [sys EXCEPT !.data_feeds = Append(@, id)]
    /\ UNCHANGED <<sysThread, sysUser, sysBatch, sysDelivered, sysRaised, sysRecorded>>
    /\ UNCHANGED SysOthers

\* deregister_data_feed(feed_id): KeyError for an id that is not there
SysDeregisterDataFeed ==
    /\ sysUser = "ready"
    /\ \E id \in FeedIds : sys' = [sys EXCEPT !.data_feeds = SeqRemove(@, id)]
    /\ UNCHANGED <<sysThread, sysUser, sysBatch, sysDelivered, sysRaised, sysRecorded>>
    /\ UNCHANGED SysOthers

\* add_derived_signal(signal)
SysAddDerivedSignal ==
    /\ sysUser = "ready"
    /\ Len(sys.functions) < MaxSysFns
    /\ \E fn \in SysCatalog : sys' = [sys EXCEPT !.functions = Append(@, fn)]
    /\ UNCHANGED <<sysThread, sysUser, sysBatch, sysDelivered, sysRaised, sysRecorded>>
    /\ UNCHANGED SysOthers

\* start_recording(path): the recorder is set, then is_recording
SysStartRecording ==
    /\ sysUser = "ready"
    /\ sys' = [sys EXCEPT !.recorder = "recorder", !.is_recording = TRUE]
    /\ UNCHANGED <<sysThread, sysUser, sysBatch, sysDelivered, sysRaised, sysRecorded>>
    /\ UNCHANGED SysOthers

\* stop_recording() up to self.recorder = None (AttributeError when there is none)
SysStopRecordingBegin ==
    /\ sysUser = "ready"
    /\ sys.recorder # None
    /\ sys' = [sys EXCEPT !.recorder = None]
    /\ sysUser' = "stop_recording"
    /\ UNCHANGED <<sysThread, sysBatch, sysDelivered, sysRaised, sysRecorded>>
    /\ UNCHANGED SysOthers

\* stop_recording(): self.is_recording = False
SysStopRecordingEnd ==
    /\ sysUser = "stop_recording"
    /\ sys' = [sys EXCEPT !.is_recording = FALSE]
    /\ sysUser' = "ready"
    /\ UNCHANGED <<sysThread, sysBatch, sysDelivered, sysRaised, sysRecorded>>
    /\ UNCHANGED SysOthers

\* _busy_loop: while self.is_active
SysLoopTest ==
    /\ sysThread.pc = "while"
    /\ sysThread' = [sysThread EXCEPT !.pc = IF sys.is_active THEN "read" ELSE "done"]
    /\ UNCHANGED <<sys, sysUser, sysBatch, sysDelivered, sysRaised, sysRecorded>>
    /\ UNCHANGED SysOthers

\* _read: data = self.source.read(); the source returns an empty buffer or the
\* next batch with the raw channels a and b
SysSourceRead ==
    /\ sysThread.pc = "read"
    /\ \E n \in (IF sysBatch < MaxSysBatches THEN 0..1 ELSE {0}) :
          /\ sysBatch' = sysBatch + n
          /\ sysThread' = [sysThread EXCEPT
                !.pc = System_read_step("read", n > 0),
                !.batch = sysBatch + n,
                !.raw = IF n = 0 THEN EmptyDict ELSE RawBuffer({"a", "b"}, sysBatch + 1, 1),
                !.data = IF n = 0 THEN EmptyDict ELSE RawBuffer({"a", "b"}, sysBatch + 1, 1),
                !.idx = 1, !.feeds = <<>>, !.fns = <<>>]
    /\ UNCHANGED <<sys, sysUser, sysDelivered, sysRaised, sysRecorded>>
    /\ UNCHANGED SysOthers

\* _read: if self.is_recording: self.recorder.write(data) (AttributeError when
\* stop_recording has just dropped the recorder); then the test len(data) > 0
SysRecord ==
    /\ sysThread.pc = "record"
    /\ IF sys.is_recording /\ sys.recorder = None
       THEN /\ sysThread' = [sysThread EXCEPT !.pc = "dead", !.err = "AttributeError"]
            /\ UNCHANGED sysRecorded
       ELSE /\ sysThread' = [sysThread EXCEPT
                  !.pc = System_read_step("record", Batch_len(sysThread.raw) > 0)]
            /\ sysRecorded' = IF sys.is_recording /\ Batch_len(sysThread.data) > 0
                              THEN Append(sysRecorded, [batch |-> sysThread.batch,
                                                        data |-> sysThread.data])
                              ELSE sysRecorded
    /\ UNCHANGED <<sys, sysUser, sysBatch, sysDelivered, sysRaised>>
    /\ UNCHANGED SysOthers

\* compute_signal_functions: one iteration of the for loop over self.functions;
\* the function raises or not; an exception ends _read, _busy_loop and the thread
SysComputeStep ==
    /\ sysThread.pc = "compute"
    /\ sysThread.idx <= Len(sys.functions)
    /\ \E raises \in BOOLEAN :
          LET it == compute_iteration(sysThread.data, sysThread.raw,
                                      sys.functions[sysThread.idx], raises)
          IN /\ sysThread' = IF it.err # None
                             THEN [sysThread EXCEPT !.pc = "dead", !.err = it.err]
                             ELSE [sysThread EXCEPT !.data = it.data, !.idx = @ + 1]
             /\ sysRaised' = IF it.err # None \/ it.logged
                             THEN sysRaised \cup {sysThread.batch} ELSE sysRaised
    /\ UNCHANGED <<sys, sysUser, sysBatch, sysDelivered, sysRecorded>>
    /\ UNCHANGED SysOthers

\* compute_signal_functions: the list is exhausted, return data
SysComputeReturn ==
    /\ sysThread.pc = "compute"
    /\ sysThread.idx > Len(sys.functions)
    /\ sysThread' = [sysThread EXCEPT !.pc = System_read_step("compute", TRUE),
                                      !.fns = sys.functions]
    /\ UNCHANGED <<sys, sysUser, sysBatch, sysDelivered, sysRaised, sysRecorded>>
    /\ UNCHANGED SysOthers

\* _busy_loop: if len(new_data) > 0: current_feeds = list(self.data_feeds.values())
SysCheck ==
    /\ sysThread.pc = "check"
    /\ sysThread' = IF Batch_len(sysThread.data) > 0
                    THEN [sysThread EXCEPT !.pc = "feeds", !.feeds = sys.data_feeds]
                    ELSE [sysThread EXCEPT !.pc = "sleep"]
    /\ UNCHANGED <<sys, sysUser, sysBatch, sysDelivered, sysRaised, sysRecorded>>
    /\ UNCHANGED SysOthers

\* _busy_loop: feed(new_data) for the next feed of current_feeds; a feed that
\* raises ends the thread
SysFeed ==
    /\ sysThread.pc = "feeds"
    /\ sysThread.feeds # <<>>
    /\ sysDelivered' = sysDelivered \cup
          {[feed |-> Head(sysThread.feeds), batch |-> sysThread.batch,
            data |-> sysThread.data, fns |-> sysThread.fns]}
    /\ \E raises \in BOOLEAN :
          sysThread' = IF raises THEN [sysThread EXCEPT !.pc = "dead", !.err = "Exception"]
                       ELSE [sysThread EXCEPT !.feeds = Tail(@)]
    /\ UNCHANGED <<sys, sysUser, sysBatch, sysRaised, sysRecorded>>
    /\ UNCHANGED SysOthers

\* _busy_loop: the for loop over current_feeds is over
SysFeedsDone ==
    /\ sysThread.pc = "feeds"
    /\ sysThread.feeds = <<>>
    /\ sysThread' = [sysThread EXCEPT !.pc = "sleep"]
    /\ UNCHANGED <<sys, sysUser, sysBatch, sysDelivered, sysRaised, sysRecorded>>
    /\ UNCHANGED SysOthers

\* _busy_loop: time.sleep(1 / self.update_rate)
SysSleep ==
    /\ sysThread.pc = "sleep"
    /\ sysThread' = [sysThread EXCEPT !.pc = "while"]
    /\ UNCHANGED <<sys, sysUser, sysBatch, sysDelivered, sysRaised, sysRecorded>>
    /\ UNCHANGED SysOthers

SysNext ==
    \/ SysStart \/ SysStopBegin \/ SysStopJoin
    \/ SysRegisterDataFeed \/ SysDeregisterDataFeed \/ SysAddDerivedSignal
    \/ SysStartRecording \/ SysStopRecordingBegin \/ SysStopRecordingEnd
    \/ SysLoopTest \/ SysSourceRead \/ SysRecord
    \/ SysComputeStep \/ SysComputeReturn \/ SysCheck
    \/ SysFeed \/ SysFeedsDone \/ SysSleep

----------------------------------------------------------------------------
(* The Sampler (signal_sources/sampler.py) *)

\* number of samples the timer callback enqueues in one behaviour
MaxPuts == 3
\* number of read() calls in one behaviour
MaxReads == 3

\* queue.Queue: put at the tail
Queue_put(q, d) == Append(q, d)

\* (a get that takes the newest item)
Queue_get_lifo(q) == [item |-> q[Len(q)], rest |-> SubSeq(q, 1, Len(q) - 1)]

\* queue.Queue: get from the head: [item, rest]
Queue_get(q) == [item |-> Head(q), rest |-> Tail(q)]

\* DataBuffer.append(pt) for a sample pt = {timestamp: t, a: v}: every value
\* becomes a chunk of one time-step, then extend: [buf, err]
DataBuffer_append(b, pt) ==
    DataBuffer_extend(b, << <<"timestamp", Arr("()", <<pt.timestamp>>)>>,
                            <<"a", Arr("()", <<pt.a>>)>> >>)

NoSample == [timestamp |-> 0, a |-> 0]

\* the reading thread outside read()
NoRead == [pc |-> "idle", data |-> DataBuffer_init(<<>>, EmptyDict), d |-> NoSample,
           start |-> 0]

\* the channel k of a dict of arrays, empty when the dict has no such channel
Chan(data, k) == IF k \in DOMAIN data THEN data[k].t ELSE <<>>

\* Sampler.__init__ with one source named a
SmpInit ==
    /\ smp = [is_active |-> FALSE, busy_loop |-> "none", is_recording |-> FALSE,
              recording_buffer |-> <<>>]
    /\ smpQueue = <<>>
    /\ smpTimer = [pc |-> "none", t |-> 0]
    /\ smpReader = NoRead
    /\ smpUser = "ready"
    /\ smpClock = 0
    /\ smpPut = 0
    /\ smpReturned = [timestamp |-> <<>>, a |-> <<>>]
    /\ smpReads = 0

\* start(), called while no BusyThread is alive: a new BusyThread is started
SmpStart ==
    /\ smpUser = "ready"
    /\ smpTimer.pc \in {"none", "done"}
    /\ smp' = [smp EXCEPT !.busy_loop = "running", !.is_active = TRUE]
    /\ smpTimer' = [pc |-> "test", t |-> 0]
    /\ UNCHANGED <<smpQueue, smpReader, smpUser, smpClock, smpPut, smpReturned, smpReads>>
    /\ UNCHANGED SmpOthers

\* stop() up to self._busy_loop.join(): nothing when not active, otherwise the
\* stop event is set
SmpStopBegin ==
    /\ smpUser = "ready"
    /\ IF ~smp.is_active THEN UNCHANGED <<smp, smpUser>>
       ELSE /\ smp' = [smp EXCEPT !.busy_loop = "stopping"]
            /\ smpUser' = "join"
    /\ UNCHANGED <<smpQueue, smpTimer, smpReader, smpClock, smpPut, smpReturned, smpReads>>
    /\ UNCHANGED SmpOthers

\* stop() once the BusyThread has ended
SmpStopJoin ==
    /\ smpUser = "join"
    /\ smpTimer.pc = "done"
    /\ smp' = [smp EXCEPT !.is_active = FALSE]
    /\ smpUser' = "ready"
    /\ UNCHANGED <<smpQueue, smpTimer, smpReader, smpClock, smpPut, smpReturned, smpReads>>
    /\ UNCHANGED SmpOthers

\* start_recording(filename)
SmpStartRecording ==
    /\ smpUser = "ready"
    /\ smp' = [smp EXCEPT !.is_recording = TRUE, !.recording_buffer = <<>>]
    /\ UNCHANGED <<smpQueue, smpTimer, smpReader, smpUser, smpClock, smpPut, smpReturned,
                   smpReads>>
    /\ UNCHANGED SmpOthers

\* BusyThread.run: while not self._stop_event.is_set(): start_time = time.time()
SmpTimerTest ==
    /\ smpTimer.pc = "test"
    /\ IF smp.busy_loop = "stopping"
       THEN /\ smpTimer' = [smpTimer EXCEPT !.pc = "done"]
            /\ UNCHANGED smpClock
       ELSE /\ smpPut < MaxPuts
            /\ smpClock' = smpClock + 1
            /\ smpTimer' = [pc |-> "callback", t |-> smpClock + 1]
    /\ UNCHANGED <<smp, smpQueue, smpReader, smpUser, smpPut, smpReturned, smpReads>>
    /\ UNCHANGED SmpOthers

\* _callback(t): the sample is built from t and the source's value and put on the
\* queue, and appended to the recording buffer when recording (the flush at
\* rec_buffer_size = 1,000,000 samples is beyond the bounds)
SmpCallback ==
    /\ smpTimer.pc = "callback"
    /\ LET data == [timestamp |-> smpTimer.t, a |-> smpPut + 1] IN
          /\ smpQueue' = Queue_put(smpQueue, data)
          /\ smp' = IF smp.is_recording
                    THEN [smp EXCEPT !.recording_buffer = Append(@, data.a)] ELSE smp
    /\ smpPut' = smpPut + 1
    /\ smpTimer' = [smpTimer EXCEPT !.pc = "sleep"]
    /\ UNCHANGED <<smpReader, smpUser, smpClock, smpReturned, smpReads>>
    /\ UNCHANGED SmpOthers

\* BusyThread.run: the sleep until start_time + interval
SmpTimerSleep ==
    /\ smpTimer.pc = "sleep"
    /\ smpTimer' = [smpTimer EXCEPT !.pc = "test"]
    /\ UNCHANGED <<smp, smpQueue, smpReader, smpUser, smpClock, smpPut, smpReturned, smpReads>>
    /\ UNCHANGED SmpOthers

\* read(): data = DataBuffer()
SmpReadBegin ==
    /\ smpReader.pc = "idle"
    /\ smpReads < MaxReads
    /\ smpReader' = [NoRead EXCEPT !.pc = "test", !.start = smpPut]
    /\ UNCHANGED <<smp, smpQueue, smpTimer, smpUser, smpClock, smpPut, smpReturned, smpReads>>
    /\ UNCHANGED SmpOthers

\* read(): while not self.buffer.empty(); return data when it is empty
SmpReadTest ==
    /\ smpReader.pc = "test"
    /\ IF smpQueue # <<>>
       THEN /\ smpReader' = [smpReader EXCEPT !.pc = "get"]
            /\ UNCHANGED <<smpReturned, smpReads>>
       ELSE /\ smpReader' = [NoRead EXCEPT !.start = smpReader.start]
            /\ smpReturned' = [k \in DOMAIN smpReturned |->
                                  smpReturned[k] \o Chan(smpReader.data.data, k)]
            /\ smpReads' = smpReads + 1
    /\ UNCHANGED <<smp, smpQueue, smpTimer, smpUser, smpClock, smpPut>>
    /\ UNCHANGED SmpOthers

\* read(): d = self.buffer.get(), which blocks while the queue is empty
SmpReadGet ==
    /\ smpReader.pc = "get"
    /\ smpQueue # <<>>
    /\ LET g == Queue_get(smpQueue) IN
          /\ smpQueue' = g.rest
          /\ smpReader' = [smpReader EXCEPT !.pc = "append", !.d = g.item]
    /\ UNCHANGED <<smp, smpTimer, smpUser, smpClock, smpPut, smpReturned, smpReads>>
    /\ UNCHANGED SmpOthers

\* read(): data.append(d); an error of the append ends the read
SmpReadAppend ==
    /\ smpReader.pc = "append"
    /\ LET r == DataBuffer_append(smpReader.data, smpReader.d) IN
          smpReader' = IF r.err # None THEN [NoRead EXCEPT !.start = smpReader.start]
                       ELSE [smpReader EXCEPT !.pc = "test", !.data = r.buf, !.d = NoSample]
    /\ UNCHANGED <<smp, smpQueue, smpTimer, smpUser, smpClock, smpPut, smpReturned, smpReads>>
    /\ UNCHANGED SmpOthers

SmpNext ==
    \/ SmpStart \/ SmpStopBegin \/ SmpStopJoin \/ SmpStartRecording
    \/ SmpTimerTest \/ SmpCallback \/ SmpTimerSleep
    \/ SmpReadBegin \/ SmpReadTest \/ SmpReadGet \/ SmpReadAppend

----------------------------------------------------------------------------
(* Serialization of signal functions: functions/serialization.py and the     *)
(* constructors of the types the functions package exports.  A constructor   *)
(* call is modelled by Python's argument binding followed by the body of     *)
(* __init__, which decides what is stored as input_signals, name and params. *)

SerTypes == {"ExtractDimension", "Concatenate", "Stack", "Reshape", "Combine",
             "Inference", "WindowedInference",
             "SineWave", "SquareWave", "TriangleWave", "FourierTransform"}

NoArgs == <<>>

SeqRange(s) == {s[i] : i \in 1..Len(s)}

\* all orders in which the elements of a set can be iterated
Orderings(S) == {s \in [1..Cardinality(S) -> S] : SeqRange(s) = S}

\* The parameters of each type's __init__ (self left out): pos are the
\* positional-or-keyword parameters in order, varargs a *tuple parameter,
\* kwonly the parameters after it, varkw a **dict parameter, defaults the
\* parameters that may be left out.
Signature(type) ==
    CASE type = "ExtractDimension" ->
           [pos |-> <<"input_signal", "name", "dim">>, varargs |-> FALSE,
            kwonly |-> {}, varkw |-> FALSE, defaults |-> NoArgs]
      [] type \in {"Concatenate", "Stack"} ->
           [pos |-> <<>>, varargs |-> TRUE,
            kwonly |-> {"name", "axis"}, varkw |-> FALSE, defaults |-> [axis |-> 0]]
      [] type = "Reshape" ->
           [pos |-> <<"input_signal", "shape", "name">>, varargs |-> FALSE,
            kwonly |-> {}, varkw |-> FALSE, defaults |-> NoArgs]
      [] type = "Combine" ->
           [pos |-> <<"signal_fns", "name">>, varargs |-> FALSE,
            kwonly |-> {}, varkw |-> FALSE, defaults |-> NoArgs]
      [] type = "Inference" ->
           [pos |-> <<"input_signal", "name", "model_filename", "stateful", "init_state">>,
            varargs |-> FALSE, kwonly |-> {}, varkw |-> FALSE,
            defaults |-> [init_state |-> 0]]
      [] type = "WindowedInference" ->
           [pos |-> <<"input_signal", "name", "model_filename">>, varargs |-> FALSE,
            kwonly |-> {}, varkw |-> TRUE, defaults |-> NoArgs]
      [] type \in {"SineWave", "SquareWave", "TriangleWave"} ->
           [pos |-> <<"input_signal", "name", "amplitude", "frequency", "phase">>,
            varargs |-> FALSE, kwonly |-> {}, varkw |-> FALSE, defaults |-> NoArgs]
      [] type = "FourierTransform" ->
           [pos |-> <<"input_signal", "name", "window_size", "window_overlap",
                      "detrend_type", "window_type">>,
            varargs |-> FALSE, kwonly |-> {}, varkw |-> TRUE,
            defaults |-> [window_size |-> 256, window_overlap |-> 0,
                          detrend_type |-> "linear", window_type |-> "hann"]]

\* Python's binding of the call cls(*args, **kw) to a signature: the result
\* carries the TypeError the call raises, or the value of every parameter.
Bind(sig, args, kw) ==
    LET npos == IF Len(args) < Len(sig.pos) THEN Len(args) ELSE Len(sig.pos)
        bound == {sig.pos[i] : i \in 1..npos}
        named == SeqRange(sig.pos) \cup sig.kwonly
        extra == DOMAIN kw \ named
        given == bound \cup (DOMAIN kw \cap named)
        required == named \ DOMAIN sig.defaults
        why == IF Len(args) > Len(sig.pos) /\ ~sig.varargs THEN "too many positional arguments"
               ELSE IF DOMAIN kw \cap bound # {} THEN "multiple values for argument"
               ELSE IF extra # {} /\ ~sig.varkw THEN "unexpected keyword argument"
               ELSE IF required \ given # {} THEN "missing required argument"
               ELSE ""
        val(p) == IF p \in bound THEN args[CHOOSE i \in 1..npos : sig.pos[i] = p]
                  ELSE IF p \in DOMAIN kw THEN kw[p]
                  ELSE sig.defaults[p]
    IN  [err |-> IF why = "" THEN "None" ELSE "TypeError",
         why |-> why,
         args |-> IF why = "" THEN [p \in named |-> val(p)] ELSE NoArgs,
         star |-> SubSeq(args, npos + 1, Len(args)),
         kwargs |-> [k \in extra |-> kw[k]]]

\* SignalFunction.__init__: the three attributes serialization reads
SignalFunction_new(type, input_signals, name, params) ==
    [type |-> type, input_signals |-> input_signals, name |-> name, params |-> params]

\* Combine.__init__: the inputs no inner function produces, as a set
Combine_inputs(signal_fns) ==
    UNION {SeqRange(signal_fns[i].input_signals) : i \in 1..Len(signal_fns)}
        \ {signal_fns[i].name : i \in 1..Len(signal_fns)}

\* The outcomes of the call cls(*args, **kw) for the class named type: the
\* TypeError of the binding, the ValueError of FourierTransform for an
\* unknown window type, or the instance the body of __init__ builds.  Combine
\* iterates a set of names, so each order of it is a possible outcome.
Construct(type, args, kw) ==
    LET b == Bind(Signature(type), args, kw)
        a == b.args
        ok(fn) == [err |-> "None", why |-> "", fn |-> fn]
    IN  IF b.err # "None" THEN {[err |-> b.err, why |-> b.why, fn |-> NoArgs]}
        ELSE CASE type = "ExtractDimension" ->
                    {ok(SignalFunction_new(type, <<a.input_signal>>, a.name, [dim |-> a.dim]))}
               [] type \in {"Concatenate", "Stack"} ->
                    {ok(SignalFunction_new(type, b.star, a.name, [axis |-> a.axis]))}
               [] type = "Reshape" ->
                    {ok(SignalFunction_new(type, <<a.input_signal>>, a.name, [shape |-> a.shape]))}
               [] type = "Combine" ->
                    {ok(SignalFunction_new(type, inputs, a.name, [signal_fns |-> a.signal_fns])) :
                        inputs \in Orderings(Combine_inputs(a.signal_fns))}
               [] type = "Inference" ->
                    {ok(SignalFunction_new(type, <<a.input_signal>>, a.name,
                            [model |-> a.model_filename, stateful |-> a.stateful,
                             init_state |-> a.init_state]))}
               [] type = "WindowedInference" ->
                    {ok(SignalFunction_new(type, <<a.input_signal>>, a.name,
                            [model_filename |-> a.model_filename] @@ b.kwargs))}
               [] type \in {"SineWave", "SquareWave", "TriangleWave"} ->
                    {ok(SignalFunction_new(type, <<a.input_signal>>, a.name,
                            [amplitude |-> a.amplitude, frequency |-> a.frequency,
                             phase |-> a.phase]))}
               [] type = "FourierTransform" ->
                    IF a.window_type # "hann"
                    THEN {[err |-> "ValueError", why |-> "unknown window type", fn |-> NoArgs]}
                    ELSE {ok(SignalFunction_new(type, <<a.input_signal>>, a.name,
                            [window_size |-> a.window_size, window_overlap |-> a.window_overlap,
                             detrend_type |-> a.detrend_type, window_type |-> a.window_type]
                            @@ b.kwargs))}

IsSignalFunction(obj) == "input_signals" \in DOMAIN obj

\* encode_signal_fn: the dictionary of a SignalFunction, a TypeError otherwise
encode_signal_fn(obj) ==
    IF IsSignalFunction(obj)
    THEN [err |-> "None",
          out |-> [signal_function |-> TRUE, type |-> obj.type,
                   inputs |-> obj.input_signals, name |-> obj.name, params |-> obj.params]]
    ELSE [err |-> "TypeError", out |-> NoArgs]

\* decode_signal_fn: the outcomes of cls(*inputs, name=name, **params) for the
\* class the type name resolves to; any other dictionary is returned as it is
decode_signal_fn(obj) ==
    IF "signal_function" \in DOMAIN obj /\ obj.signal_function
    THEN IF obj.type \notin SerTypes
         THEN {[err |-> "AttributeError", why |-> "no such type", fn |-> NoArgs]}
         ELSE Construct(obj.type, obj.inputs, [name |-> obj.name] @@ obj.params)
    ELSE {[err |-> "None", why |-> "", fn |-> obj]}

SerNames == {"a", "b"}

\* largest value of a constructor parameter
MaxParam == 2
SerValues == 1..MaxParam

\* the keyword arguments a caller constructs each type with, beside name
SerKeywords(type) ==
    CASE type = "ExtractDimension" -> [{"dim"} -> SerValues]
      [] type \in {"Concatenate", "Stack"} -> [{"axis"} -> SerValues] \cup {NoArgs}
      [] type = "Reshape" -> [{"shape"} -> SerValues]
      [] type = "Inference" ->
           [{"model_filename", "stateful"} -> SerValues]
           \cup [{"model_filename", "stateful", "init_state"} -> SerValues]
      [] type = "WindowedInference" ->
           [{"model_filename", "window_size", "output_shape"} -> SerValues]
      [] type \in {"SineWave", "SquareWave", "TriangleWave"} ->
           [{"amplitude", "frequency", "phase"} -> SerValues]
      [] type = "FourierTransform" ->
           [{"window_size", "window_overlap"} -> SerValues]
           \cup [{"window_size", "upsample"} -> SerValues]
      [] type = "Combine" -> {NoArgs}

\* the positional arguments: one input name, or any tuple of names where the
\* constructor takes a tuple
SerPositional(type) ==
    IF type \in {"Concatenate", "Stack"}
    THEN {<<x>> : x \in SerNames} \cup {<<x, y>> : x, y \in SerNames}
    ELSE {<<x>> : x \in SerNames}

\* instances of the types other than Combine
SerConstructed(type) ==
    UNION {Construct(type, args, [name |-> "out"] @@ kw) :
               args \in SerPositional(type), kw \in SerKeywords(type)}

SerPlain ==
    {r.fn : r \in {r \in UNION {SerConstructed(type) : type \in SerTypes \ {"Combine"}} :
                      r.err = "None"}}

\* the inner functions of a Combine: a first function of an external input and
\* optionally a second one of the first one's output and an external input
SerInner ==
    LET first == {SignalFunction_new("ExtractDimension", <<x>>, "u", [dim |-> v]) :
                      x \in SerNames, v \in SerValues}
        second == {SignalFunction_new("Stack", s, "out", [axis |-> v]) :
                      s \in {<<"u">>} \cup {<<"u", x>> : x \in SerNames}, v \in SerValues}
        source == {SignalFunction_new("SineWave", <<"u">>, "u", [amplitude |-> v, frequency |-> v, phase |-> v]) :
                      v \in SerValues}
    IN  {<<f>> : f \in first \cup source} \cup {<<f, g>> : f \in first \cup source, g \in second}

SerCombined ==
    {r.fn : r \in {r \in UNION {Construct("Combine", <<fns>>, [name |-> "out"]) : fns \in SerInner} :
                      r.err = "None"}}

SerInit ==
    /\ serFn \in SerPlain \cup SerCombined
    /\ serEnc = NoArgs
    /\ serDec = NoArgs

SerEncode ==
    /\ serEnc = NoArgs
    /\ serEnc' = encode_signal_fn(serFn)
    /\ UNCHANGED <<serFn, serDec>>
    /\ UNCHANGED SerOthers

SerDecode ==
    /\ serEnc # NoArgs
    /\ serEnc.err = "None"
    /\ serDec = NoArgs
    /\ serDec' \in decode_signal_fn(serEnc.out)
    /\ UNCHANGED <<serFn, serEnc>>
    /\ UNCHANGED SerOthers

SerNext == SerEncode \/ SerDecode

----------------------------------------------------------------------------
(* Two runs of one function list over one recorded input (functions/base.py, *)
(* functions/shape.py).  A signal function is an instance with internal      *)
(* state: what a call returns is a function of its arguments and of every    *)
(* argument tuple the instance was called with before.                       *)

\* number of batches of the recorded input
MaxDetBatches == 2
\* longest function list of a run
MaxDetFns == 2

\* a freshly constructed instance of a function with internal state
Plain(nm, inputs) ==
    [kind |-> "plain", name |-> nm, input_signals |-> inputs, hist |-> <<>>]

\* Combine(signal_fns, name): input_signals is the tuple made of a set, in the
\* order the set is iterated in, which another process may iterate differently
Combined(nm, signal_fns, inputs) ==
    [kind |-> "combine", name |-> nm, input_signals |-> inputs, signal_fns |-> signal_fns]

Combine_new(nm, signal_fns) ==
    {Combined(nm, signal_fns, inputs) : inputs \in Orderings(Combine_inputs(signal_fns))}

\* tuple.index
Index(t, x) == CHOOSE i \in 1..Len(t) : t[i] = x /\ \A j \in 1..(i - 1) : t[j] # x

\* signal(*args) for an instance with internal state: [out, inst, err]
Plain_call(inst, args) ==
    [out |-> FnVal(inst.name, args[1].batch, args[1].n, <<args, inst.hist>>),
     inst |-> [inst EXCEPT !.hist = Append(@, args)],
     err |-> None]

\* (the arguments of an inner function taken by position from the call's arguments)
Combine_fn_inputs_positional(c, fn, internal_outputs, args) ==
    [k \in 1..Len(fn.input_signals) |->
        IF fn.input_signals[k] \in DOMAIN internal_outputs
        THEN internal_outputs[fn.input_signals[k]]
        ELSE LET named(x) == x \in SeqRange(c.input_signals)
             IN args[Index(SelectSeq(<<"a", "b">>, named), fn.input_signals[k])]]

\* Combine.__call__, the arguments of one inner function: an internal output, or
\* the argument at the index of the name in input_signals
Combine_fn_inputs(c, fn, internal_outputs, args) ==
    [k \in 1..Len(fn.input_signals) |->
        IF fn.input_signals[k] \in DOMAIN internal_outputs
        THEN internal_outputs[fn.input_signals[k]]
        ELSE args[Index(c.input_signals, fn.input_signals[k])]]

\* self.input_signals.index(fn_input) raises ValueError for a name that is
\* neither an internal output so far nor one of the Combine's input_signals
Combine_index_raises(c, fn, internal_outputs) ==
    \E k \in 1..Len(fn.input_signals) :
        /\ fn.input_signals[k] \notin DOMAIN internal_outputs
        /\ fn.input_signals[k] \notin SeqRange(c.input_signals)

\* Combine.__call__ from inner function i on: [out, inst, err]; the inner
\* functions called before an error keep what the calls did to them
RECURSIVE Combine_loop(_, _, _, _)
Combine_loop(c, args, i, internal_outputs) ==
    IF i > Len(c.signal_fns)
    THEN [out |-> internal_outputs[c.signal_fns[Len(c.signal_fns)].name], inst |-> c,
          err |-> None]
    ELSE LET fn == c.signal_fns[i] IN
         IF Combine_index_raises(c, fn, internal_outputs)
         THEN [out |-> RawVal("raised", 0, 0), inst |-> c, err |-> "ValueError"]
         ELSE LET r == Plain_call(fn, Combine_fn_inputs(c, fn, internal_outputs, args))
              IN Combine_loop([c EXCEPT !.signal_fns[i] = r.inst], args, i + 1,
                              DataBuffer_setitem(internal_outputs, fn.name, r.out))

SignalFunction_call(inst, args) ==
    IF inst.kind = "combine" THEN Combine_loop(inst, args, 1, <<>>)
    ELSE Plain_call(inst, args)

\* compute_signal_functions from function i on, on instances: [data, err, insts]
RECURSIVE compute_instances(_, _, _)
compute_instances(data, insts, i) ==
    IF i > Len(insts) THEN [data |-> data, err |-> None, insts |-> insts]
    ELSE IF \E k \in 1..Len(insts[i].input_signals) : insts[i].input_signals[k] \notin DOMAIN data
    THEN [data |-> data, err |-> "KeyError", insts |-> insts]
    ELSE LET inputs == [k \in 1..Len(insts[i].input_signals) |->
                           DataBuffer_getitem(data, insts[i].input_signals[k]).v]
             r == SignalFunction_call(insts[i], inputs)
         IN IF r.err # None
            THEN [data |-> data, err |-> r.err, insts |-> [insts EXCEPT ![i] = r.inst]]
            ELSE compute_instances(DataBuffer_setitem(data, insts[i].name, r.out),
                                   [insts EXCEPT ![i] = r.inst], i + 1)

\* the ways to construct the functions of the lists: x from a, y from x and b,
\* and c, a Combine of u from b and v from u, a and b
DetCatalog ==
    {{Plain("x", <<"a">>)}, {Plain("y", <<"x", "b">>)}, {Plain("y", <<"b", "a">>)},
     Combine_new("c", <<Plain("u", <<"b">>), Plain("v", <<"u", "a", "b">>)>>),
     Combine_new("x", <<Plain("x", <<"b", "a">>)>>)}

\* the lists of constructors, and the ways to construct the instances of one
DetLists == UNION {[1..n -> DetCatalog] : n \in 1..MaxDetFns}
DetInstances(list) == {insts \in [1..Len(list) -> UNION DetCatalog] :
                          \A i \in 1..Len(list) : insts[i] \in list[i]}

DetInit ==
    /\ detBatches \in UNION {[1..m -> {RawBuffer({"a", "b"}, 0, n) : n \in 1..2}] :
                                m \in 1..MaxDetBatches}
    /\ \E list \in DetLists :
          detRun \in [{1, 2} -> {[insts |-> insts, pos |-> 0, outs |-> <<>>] :
                                    insts \in DetInstances(list)}]

\* run r computes its next batch
DetCompute(r) ==
    /\ detRun[r].pos < Len(detBatches)
    /\ LET res == compute_instances(detBatches[detRun[r].pos + 1], detRun[r].insts, 1)
       IN detRun' = [detRun EXCEPT ![r] = [insts |-> res.insts, pos |-> @.pos + 1,
                                           outs |-> Append(@.outs, [err |-> res.err,
                                                                    data |-> res.data])]]
    /\ UNCHANGED detBatches
    /\ UNCHANGED DetOthers

DetComputeFirst == DetCompute(1)
DetComputeSecond == DetCompute(2)

DetNext == DetComputeFirst \/ DetComputeSecond

----------------------------------------------------------------------------
(* start() and stop() of the System with every thread start() creates        *)
(* (system.py): a call of start() is not restricted to a stopped System.     *)

\* number of threads created in one behaviour
MaxStarts == 2
\* number of source.start() calls in one behaviour
MaxAttempts == 3
\* longest function list
MaxLcFns == 1

\* (a start that sets is_active before the source is started)
System_start_active_first(s, raises) ==
    IF raises THEN [sys |-> [s EXCEPT !.is_active = TRUE], err |-> "Exception", spawn |-> FALSE]
    ELSE [sys |-> [s EXCEPT !.source = "started", !.is_active = TRUE],
          err |-> None, spawn |-> TRUE]

\* start(): self.source.start() comes first and its exception leaves start();
\* then is_active = True and the thread is created and started:
\* [sys, err, spawn]
System_start(s, raises) ==
    IF raises THEN [sys |-> s, err |-> "Exception", spawn |-> FALSE]
    ELSE [sys |-> [s EXCEPT !.source = "started", !.is_active = TRUE],
          err |-> None, spawn |-> TRUE]

\* a thread that has ended: _busy_loop returned, or an exception left it
Ended(t) == t.pc \in {"done", "dead"}

\* a thread inside compute_signal_functions
InPipeline(t) == t.pc = "compute"

LcInit ==
    /\ lc = [is_active |-> FALSE, main_thread |-> 0, source |-> "stopped",
             functions |-> 0, data_feeds |-> {}, is_recording |-> FALSE]
    /\ lcThreads = <<>>
    /\ lcUser = [pc |-> "ready", err |-> None]
    /\ lcStopped = FALSE
    /\ lcAttempts = 0

\* start(), whatever the state of the System; the source raises or not
LcStart ==
    /\ lcUser.pc = "ready"
    /\ Len(lcThreads) < MaxStarts
    /\ lcAttempts < MaxAttempts
    /\ \E raises \in BOOLEAN :
          LET r == System_start(lc, raises) IN
             /\ lc' = IF r.spawn THEN [r.sys EXCEPT !.main_thread = Len(lcThreads) + 1]
                      ELSE r.sys
             /\ lcThreads' = IF r.spawn THEN Append(lcThreads, [pc |-> "while"]) ELSE lcThreads
             /\ lcUser' = [lcUser EXCEPT !.err = r.err]
             /\ lcStopped' = IF r.spawn THEN FALSE ELSE lcStopped
    /\ lcAttempts' = lcAttempts + 1
    /\ UNCHANGED LcOthers

\* stop() up to self.main_thread.join() (AttributeError before the first start)
LcStopBegin ==
    /\ lcUser.pc = "ready"
    /\ lc.main_thread # 0
    /\ lc' = [lc EXCEPT !.is_active = FALSE]
    /\ lcUser' = [lcUser EXCEPT !.pc = "join"]
    /\ UNCHANGED <<lcThreads, lcStopped, lcAttempts>>
    /\ UNCHANGED LcOthers

\* stop() once main_thread has ended: stop_recording() if recording,
\* source.stop(), and stop() returns
LcStopJoin ==
    /\ lcUser.pc = "join"
    /\ Ended(lcThreads[lc.main_thread])
    /\ lc' = [lc EXCEPT !.is_recording = FALSE, !.source = "stopped"]
    /\ lcUser' = [lcUser EXCEPT !.pc = "ready"]
    /\ lcStopped' = TRUE
    /\ UNCHANGED <<lcThreads, lcAttempts>>
    /\ UNCHANGED LcOthers

LcAddDerivedSignal ==
    /\ lcUser.pc = "ready"
    /\ lc.functions < MaxLcFns
    /\ lc' = [lc EXCEPT !.functions = @ + 1]
    /\ UNCHANGED <<lcThreads, lcUser, lcStopped, lcAttempts>>
    /\ UNCHANGED LcOthers

\* register_data_feed(feed_id, callback), the id not yet registered
LcRegisterDataFeed ==
    /\ lcUser.pc = "ready"
    /\ \E id \in FeedIds \ lc.data_feeds : lc' = [lc EXCEPT !.data_feeds = @ \cup {id}]
    /\ UNCHANGED <<lcThreads, lcUser, lcStopped, lcAttempts>>
    /\ UNCHANGED LcOthers

\* deregister_data_feed(feed_id), the id registered
LcDeregisterDataFeed ==
    /\ lcUser.pc = "ready"
    /\ \E id \in lc.data_feeds : lc' = [lc EXCEPT !.data_feeds = @ \ {id}]
    /\ UNCHANGED <<lcThreads, lcUser, lcStopped, lcAttempts>>
    /\ UNCHANGED LcOthers

\* _busy_loop of one thread: while self.is_active
LcLoopTest ==
    /\ \E t \in 1..Len(lcThreads) :
          /\ lcThreads[t].pc = "while"
          /\ lcThreads' = [lcThreads EXCEPT ![t].pc = IF lc.is_active THEN "read" ELSE "done"]
    /\ UNCHANGED <<lc, lcUser, lcStopped, lcAttempts>>
    /\ UNCHANGED LcOthers

\* _read: the source is read; a non-empty buffer enters compute_signal_functions,
\* an empty one goes to the sleep
LcRead ==
    /\ \E t \in 1..Len(lcThreads), nonempty \in BOOLEAN :
          /\ lcThreads[t].pc = "read"
          /\ lcThreads' = [lcThreads EXCEPT ![t].pc = IF nonempty THEN "compute" ELSE "sleep"]
    /\ UNCHANGED <<lc, lcUser, lcStopped, lcAttempts>>
    /\ UNCHANGED LcOthers

\* compute_signal_functions returns, or a function raises and the thread ends
LcCompute ==
    /\ \E t \in 1..Len(lcThreads), raises \in BOOLEAN :
          /\ lcThreads[t].pc = "compute"
          /\ raises => lc.functions > 0
          /\ lcThreads' = [lcThreads EXCEPT ![t].pc = IF raises THEN "dead" ELSE "feeds"]
    /\ UNCHANGED <<lc, lcUser, lcStopped, lcAttempts>>
    /\ UNCHANGED LcOthers

\* the feeds have been called, or one raises and the thread ends
LcFeeds ==
    /\ \E t \in 1..Len(lcThreads), raises \in BOOLEAN :
          /\ lcThreads[t].pc = "feeds"
          /\ raises => lc.data_feeds # {}
          /\ lcThreads' = [lcThreads EXCEPT ![t].pc = IF raises THEN "dead" ELSE "sleep"]
    /\ UNCHANGED <<lc, lcUser, lcStopped, lcAttempts>>
    /\ UNCHANGED LcOthers

\* time.sleep(1 / self.update_rate)
LcSleep ==
    /\ \E t \in 1..Len(lcThreads) :
          /\ lcThreads[t].pc = "sleep"
          /\ lcThreads' = [lcThreads EXCEPT ![t].pc = "while"]
    /\ UNCHANGED <<lc, lcUser, lcStopped, lcAttempts>>
    /\ UNCHANGED LcOthers

LcNext ==
    \/ LcStart \/ LcStopBegin \/ LcStopJoin
    \/ LcAddDerivedSignal \/ LcRegisterDataFeed \/ LcDeregisterDataFeed
    \/ LcLoopTest \/ LcRead \/ LcCompute \/ LcFeeds \/ LcSleep

----------------------------------------------------------------------------
(* The PickleRecorder (recorders.py).  A buffer is the sequence of its       *)
(* samples; the file holds what the last pickle.dump wrote.                  *)

\* rec_buffer_size of the recorder of the model
RecBufferSize == 3
\* number of write() calls in one behaviour
MaxWrites == 5
\* longest buffer written in one call
MaxWriteLen == 3

AbsentFile == [kind |-> "absent", data |-> <<>>]
PickledBuffer(data) == [kind |-> "buffer", data |-> data]
PickledNone == [kind |-> "None", data |-> <<>>]

\* the value of the expression old_data.extend(buffer): DataBuffer.extend has no
\* return statement
DataBuffer_extend_returned(old, new) == PickledNone

\* _flush_to_file: [rec, file, err].  With a file already written the old
\* content is loaded and data is what its extend returns (AttributeError when
\* the content is None); data is dumped and the recording buffer cleared.
PickleRecorder_flush_to_file(r, file) ==
    IF r.has_written_file /\ file.kind = "None"
    THEN [rec |-> r, file |-> file, err |-> "AttributeError"]
    ELSE LET data == IF r.has_written_file
                     THEN DataBuffer_extend_returned(file.data, r.recording_buffer)
                     ELSE PickledBuffer(r.recording_buffer)
         IN [rec |-> [recording_buffer |-> <<>>, has_written_file |-> TRUE],
             file |-> data, err |-> None]

\* write(data): extend the recording buffer, flush when it is longer than
\* rec_buffer_size: [rec, file, err]
PickleRecorder_write(r, file, data) ==
    LET r2 == [r EXCEPT !.recording_buffer = @ \o data]
    IN IF Len(r2.recording_buffer) > RecBufferSize
       THEN PickleRecorder_flush_to_file(r2, file)
       ELSE [rec |-> r2, file |-> file, err |-> None]

RecInit ==
    /\ rec = [recording_buffer |-> <<>>, has_written_file |-> FALSE]
    /\ recFile = AbsentFile
    /\ recWritten = <<>>
    /\ recCall = [op |-> "init", err |-> None, writes |-> 0]

\* write(data) with a buffer of n new samples, numbered in stream order
RecWrite ==
    /\ recCall.op # "stop"
    /\ recCall.err = None
    /\ recCall.writes < MaxWrites
    /\ \E n \in 0..MaxWriteLen :
          LET data == [i \in 1..n |-> Len(recWritten) + i]
              r == PickleRecorder_write(rec, recFile, data)
          IN /\ rec' = r.rec
             /\ recFile' = r.file
             /\ recCall' = [op |-> "write", err |-> r.err, writes |-> recCall.writes + 1]
             /\ recWritten' = recWritten \o data
    /\ UNCHANGED RecOthers

\* stop(): the last flush
RecStop ==
    /\ recCall.op # "stop"
    /\ recCall.err = None
    /\ LET r == PickleRecorder_flush_to_file(rec, recFile)
       IN /\ rec' = r.rec
          /\ recFile' = r.file
          /\ recCall' = [op |-> "stop", err |-> r.err, writes |-> recCall.writes]
    /\ UNCHANGED recWritten
    /\ UNCHANGED RecOthers

RecNext == RecWrite \/ RecStop

----------------------------------------------------------------------------
(* Item assignment on the DataBuffer under test (buffers.py): what           *)
(* buffer[key] = value and the pipeline's data[signal.name] = output do      *)

\* buffer[key] = value with an array of n fresh samples of some shape: the
\* value is stored under the key, with no check against the channel it replaces
DbSetitem ==
    /\ IsData
    /\ \E k \in Names, shape \in Shapes, n \in 0..MaxChunk :
          /\ clock + n <= MaxSamples
          /\ db' = [db EXCEPT !.data = DataBuffer_setitem(@, k, Arr(shape, Fresh(clock, n)))]
          /\ clock' = clock + n
          /\ bufCall' = [op |-> "setitem", arg |-> k, err |-> None, pre |-> db]
    /\ UNCHANGED <<nb, nbHist, dbHist, popped>>
    /\ UNCHANGED BufOthers

\* DataBuffer(): no maxlen, no data
BufItemsInit ==
    /\ BufInit
    /\ IsData
    /\ db.maxlen = <<>>
    /\ DOMAIN db.data = {}

BufItemsNext ==
    \/ DbExtend \/ DbAppend \/ DbPopleft \/ DbPopleftAll \/ DbSetitem

----------------------------------------------------------------------------
(* A windowed transform fed a stream call by call: what the calls delivered *)

MaxRunWin == 4

MaxRunFed == 10

MaxRunCalls == 10

\* the transform is constructed with a window size, an overlap below it and
\* either delivery mode; nothing has been fed yet
RunInit ==
    /\ \E ws \in 1..MaxRunWin, ov \in 0..(MaxRunWin - 1), up \in BOOLEAN :
          /\ ov < ws
          /\ runWin = init_windowing(ws, ov, up)
    /\ runFed = 0
    /\ runCalls = 0
    /\ runSizes = {}
    /\ runOut = <<>>
    /\ runWindows = <<>>
    /\ runErrs = 0

\* one __call__ with the next k samples of a one-dimensional stream; the
\* caller concatenates what the calls return and counts the calls that raise;
\* runWindows lists the windows handed to windowed_fn, runSizes the chunk
\* lengths used so far
RunCall ==
    \E k \in 0..MaxChunk :
        /\ runFed + k <= MaxRunFed
        /\ runCalls < MaxRunCalls
        /\ LET r == Windowed_call(runWin, Arr("()", Fresh(runFed, k))) IN
              /\ runWin' = r.w
              /\ runOut' = IF r.err = None THEN runOut \o r.out.t ELSE runOut
              /\ runErrs' = IF r.err = None THEN runErrs ELSE runErrs + 1
              /\ runWindows' = runWindows \o r.seen
        /\ runFed' = runFed + k
        /\ runCalls' = runCalls + 1
        /\ runSizes' = runSizes \cup {k}
        /\ UNCHANGED RunOthers

RunNext == RunCall

----------------------------------------------------------------------------
(* Delay (signal_functions/windowed.py; signals/windowed.py has the same body) *)

\* largest delay
MaxDelay == 3

\* number of samples one behaviour feeds
MaxDlyFed == 10

Delay_init(n) == [n |-> n, buffer |-> <<>>]

\* np.zeros((self.n, *sig.shape[:-1])): n zeros along the time axis for a
\* one-dimensional signal; for a signal with the non-time axes (2,) an array of
\* shape (n, 2), whose non-time axes are (n,) and whose time axis has length 2
init_vals(n, shape) ==
    IF shape = "()" THEN Arr("()", [i \in 1..n |-> 0])
    ELSE Arr(IF n = 2 THEN "(2,)" ELSE "(n,)", <<0, 0>>)

\* Delay.__call__(sig): [fn, err, out]; the buffer is created and filled with
\* the zeros by the first call
Delay_call(fn, sig) ==
    LET created == IF fn.buffer = <<>>
                   THEN NumpyBuffer_extend(NumpyBuffer_init(<<>>, sig.shape),
                                           init_vals(fn.n, sig.shape))
                   ELSE [buf |-> fn.buffer[1], err |-> None]
    IN IF created.err # None
       THEN [fn |-> [fn EXCEPT !.buffer = <<created.buf>>], err |-> created.err,
             out |-> <<>>]
       ELSE LET ext == NumpyBuffer_extend(created.buf, sig) IN
            IF ext.err # None
            THEN [fn |-> [fn EXCEPT !.buffer = <<ext.buf>>], err |-> ext.err, out |-> <<>>]
            ELSE LET r == NumpyBuffer_popleft(ext.buf, Len(sig.t)) IN
                 [fn |-> [fn EXCEPT !.buffer = <<r.buf>>], err |-> r.err,
                  out |-> IF r.err = None THEN r.out.t ELSE <<>>]

DlyInit ==
    /\ dlyFn \in {Delay_init(n) : n \in 0..MaxDelay}
    /\ dlyShape \in Shapes
    /\ dlyFed = 0
    /\ dlyOut = <<>>
    /\ dlyCall = NoCall

\* one call with the next k samples of the signal
DlyCall ==
    \E k \in 0..MaxChunk :
        /\ dlyFed + k <= MaxDlyFed
        /\ LET r == Delay_call(dlyFn, Arr(dlyShape, Fresh(dlyFed, k))) IN
              /\ dlyFn' = r.fn
              /\ dlyOut' = dlyOut \o r.out
              /\ dlyCall' = [op |-> "call", arg |-> k, err |-> r.err, out |-> r.out]
        /\ dlyFed' = dlyFed + k
        /\ UNCHANGED dlyShape
        /\ UNCHANGED DlyOthers

DlyNext == DlyCall

----------------------------------------------------------------------------
(* A Combine of a list of functions next to the list itself (functions/shape.py, *)
(* functions/base.py)                                                            *)

\* longest list of inner functions
MaxCmbFns == 2

\* number of batches one behaviour computes
MaxCmbBatches == 2

\* the inner functions: u from a, v from u and b, v from b, one that rewrites
\* the raw channel a, one that rewrites u from u
CmbCatalog ==
    {Plain("u", <<"a">>), Plain("v", <<"u", "b">>), Plain("v", <<"b">>),
     Plain("a", <<"a">>), Plain("u", <<"u">>)}

CmbLists == UNION {[1..n -> CmbCatalog] : n \in 1..MaxCmbFns}

\* the value stored under nm by a computation: [err, v]
ResultOf(res, nm) ==
    [err |-> res.err, v |-> IF res.err = None THEN res.data[nm] ELSE RawVal("raised", 0, 0)]

\* the same list of fresh functions is built twice: once inside a Combine named
\* c, once as the function list of a pipeline
CmbInit ==
    /\ \E fns \in CmbLists :
          /\ cmbCombine \in {<<c>> : c \in Combine_new("c", fns)}
          /\ cmbPipeline = fns
    /\ cmbBatch = 0
    /\ cmbOut = NoCall

\* both are computed on the next batch, through compute_signal_functions
CmbCompute ==
    /\ cmbBatch < MaxCmbBatches
    /\ \E keys \in {{"a", "b"}, {"a", "b", "u"}}, n \in 1..2 :
          LET data == RawBuffer(keys, cmbBatch + 1, n)
              rc == compute_instances(data, cmbCombine, 1)
              rp == compute_instances(data, cmbPipeline, 1)
          IN /\ cmbCombine' = rc.insts
             /\ cmbPipeline' = rp.insts
             /\ cmbOut' = [op |-> "compute",
                           combine |-> ResultOf(rc, "c"),
                           pipeline |-> ResultOf(rp, cmbPipeline[Len(cmbPipeline)].name)]
    /\ cmbBatch' = cmbBatch + 1
    /\ UNCHANGED CmbOthers

CmbNext == CmbCompute

----------------------------------------------------------------------------
(* Sampler.start() and stop(), statement by statement, and the BusyThreads *)
(* (signal_sources/sampler.py)                                             *)

\* number of start() calls in one behaviour
MaxStCalls == 2

\* number of callbacks of one BusyThread
MaxStCallbacks == 1

\* self.sources, in the order of the dict
StSources == <<"s1", "s2">>

Step(op, s) == [op |-> op, s |-> s]

\* the sources whose start method start() calls, in order
StartSteps(hasStart) ==
    LET has(s) == s \in hasStart IN
    [i \in 1..Len(SelectSeq(StSources, has)) |-> Step("source", SelectSeq(StSources, has)[i])]

\* (a start() that starts the BusyThread before the sources)
Sampler_start_thread_first(hasStart) ==
    <<Step("thread", None)>> \o StartSteps(hasStart)
        \o <<Step("time", None), Step("active", None)>>

\* Sampler.start(): the statements in program order: source.start() for every
\* source that has one, self.start_time = time.time(), the BusyThread created
\* and started, self.is_active = True
Sampler_start(hasStart) ==
    StartSteps(hasStart) \o <<Step("time", None), Step("thread", None), Step("active", None)>>

\* Sampler.stop() on an active Sampler: the statements in program order:
\* source.stop() for every source that has one, self._busy_loop.stop(), then
\* self._busy_loop.join() and self.is_active = False
Sampler_stop(hasStop) ==
    [i \in 1..Len(StartSteps(hasStop)) |-> Step("source", StartSteps(hasStop)[i].s)]
        \o <<Step("event", None), Step("join", None)>>

UserReady == [pc |-> "ready", steps |-> <<>>, call |-> 0]

\* Sampler.__init__ with two sources, each with start and stop methods or with
\* neither; stopped holds the sources whose stop() was called after their last
\* start(), and stop_returned says that stop() has returned since the last start()
StInit ==
    /\ stSmp = [is_active |-> FALSE, start_time |-> None, busy_loop |-> 0,
                stopped |-> {}, stop_returned |-> FALSE]
    /\ stHasStart \in SUBSET SeqRange(StSources)
    /\ stUser = UserReady
    /\ stCalls = 0
    /\ stThreads = <<>>
    /\ stReturned = {}
    /\ stActivated = {}
    /\ stClock = 0

\* the user calls start(); nothing in start() tests is_active
StStart ==
    /\ stUser.pc = "ready"
    /\ stCalls < MaxStCalls
    /\ stUser' = [pc |-> "start", steps |-> Sampler_start(stHasStart), call |-> stCalls + 1]
    /\ stCalls' = stCalls + 1
    /\ stSmp' = [stSmp EXCEPT !.stop_returned = FALSE]
    /\ UNCHANGED <<stHasStart, stThreads, stReturned, stActivated, stClock>>
    /\ UNCHANGED StOthers

\* the statement of start() that is next has been executed
Advance == IF Len(stUser.steps) = 1 THEN UserReady
           ELSE [stUser EXCEPT !.steps = Tail(@)]

\* source.start() returns
StSourceStart ==
    /\ stUser.pc = "start"
    /\ Head(stUser.steps).op = "source"
    /\ stReturned' = stReturned \cup {<<stUser.call, Head(stUser.steps).s>>}
    /\ stSmp' = [stSmp EXCEPT !.stopped = @ \ {Head(stUser.steps).s}]
    /\ stUser' = Advance
    /\ UNCHANGED <<stHasStart, stCalls, stThreads, stActivated, stClock>>
    /\ UNCHANGED StOthers

\* source.start() raises: start() ends there
StSourceRaise ==
    /\ stUser.pc = "start"
    /\ Head(stUser.steps).op = "source"
    /\ stUser' = UserReady
    /\ UNCHANGED <<stSmp, stHasStart, stCalls, stThreads, stReturned, stActivated, stClock>>
    /\ UNCHANGED StOthers

\* self.start_time = time.time()
StSetTime ==
    /\ stUser.pc = "start"
    /\ Head(stUser.steps).op = "time"
    /\ stClock' = stClock + 1
    /\ stSmp' = [stSmp EXCEPT !.start_time = stClock + 1]
    /\ stUser' = Advance
    /\ UNCHANGED <<stHasStart, stCalls, stThreads, stReturned, stActivated>>
    /\ UNCHANGED StOthers

\* self._busy_loop = BusyThread(...); self._busy_loop.start()
StThreadStart ==
    /\ stUser.pc = "start"
    /\ Head(stUser.steps).op = "thread"
    /\ stThreads' = Append(stThreads, [call |-> stUser.call, pc |-> "test", todo |-> <<>>,
                                       queried |-> 0, stop |-> FALSE, callbacks |-> 0,
                                       late |-> {}, late_put |-> FALSE])
    /\ stSmp' = [stSmp EXCEPT !.busy_loop = Len(stThreads) + 1]
    /\ stUser' = Advance
    /\ UNCHANGED <<stHasStart, stCalls, stReturned, stActivated, stClock>>
    /\ UNCHANGED StOthers

\* self.is_active = True
StSetActive ==
    /\ stUser.pc = "start"
    /\ Head(stUser.steps).op = "active"
    /\ stSmp' = [stSmp EXCEPT !.is_active = TRUE]
    /\ stActivated' = stActivated \cup {stUser.call}
    /\ stUser' = Advance
    /\ UNCHANGED <<stHasStart, stCalls, stThreads, stReturned, stClock>>
    /\ UNCHANGED StOthers

\* the user calls stop(): if not self.is_active: return
StStop ==
    /\ stUser.pc = "ready"
    /\ stCalls > 0
    /\ stUser' = IF ~stSmp.is_active THEN stUser
                 ELSE [pc |-> "stop", steps |-> Sampler_stop(stHasStart), call |-> 0]
    /\ UNCHANGED <<stSmp, stHasStart, stCalls, stThreads, stReturned, stActivated, stClock>>
    /\ UNCHANGED StOthers

\* stop(): source.stop() for the next source that has a stop method
StSourceStop ==
    /\ stUser.pc = "stop"
    /\ Head(stUser.steps).op = "source"
    /\ stSmp' = [stSmp EXCEPT !.stopped = @ \cup {Head(stUser.steps).s}]
    /\ stUser' = Advance
    /\ UNCHANGED <<stHasStart, stCalls, stThreads, stReturned, stActivated, stClock>>
    /\ UNCHANGED StOthers

\* stop(): self._busy_loop.stop() sets the stop event of the last BusyThread
StStopEvent ==
    /\ stUser.pc = "stop"
    /\ Head(stUser.steps).op = "event"
    /\ stThreads' = [stThreads EXCEPT ![stSmp.busy_loop].stop = TRUE]
    /\ stUser' = Advance
    /\ UNCHANGED <<stSmp, stHasStart, stCalls, stReturned, stActivated, stClock>>
    /\ UNCHANGED StOthers

\* stop(): self._busy_loop.join() returns once that BusyThread has ended; then
\* self.is_active = False and stop() returns
StStopJoin ==
    /\ stUser.pc = "stop"
    /\ Head(stUser.steps).op = "join"
    /\ stThreads[stSmp.busy_loop].pc = "done"
    /\ stSmp' = [stSmp EXCEPT !.is_active = FALSE, !.stop_returned = TRUE]
    /\ stUser' = UserReady
    /\ UNCHANGED <<stHasStart, stCalls, stThreads, stReturned, stActivated, stClock>>
    /\ UNCHANGED StOthers

\* BusyThread.run of thread t: the loop test, then start_time = time.time() and
\* the callback, which is about to query every source
StTimerTest ==
    \E t \in 1..Len(stThreads) :
        /\ stThreads[t].pc = "test"
        /\ IF stThreads[t].stop
           THEN /\ stThreads' = [stThreads EXCEPT ![t].pc = "done"]
                /\ UNCHANGED stClock
           ELSE /\ stThreads[t].callbacks < MaxStCallbacks
                /\ stClock' = stClock + 1
                /\ stThreads' = [stThreads EXCEPT ![t].pc = "callback", ![t].todo = StSources,
                                                  ![t].callbacks = @ + 1]
        /\ UNCHANGED <<stSmp, stHasStart, stUser, stCalls, stReturned, stActivated>>
        /\ UNCHANGED StOthers

\* _callback of thread t: d = source(t - self.start_time) for the next source;
\* after the last one the sample is put on the queue and the thread sleeps
\* (late: the sources queried after their stop() was called; late_put: a
\* sample was put on the queue after stop() had returned)
StTimerQuery ==
    \E t \in 1..Len(stThreads) :
        /\ stThreads[t].pc = "callback"
        /\ stThreads' = [stThreads EXCEPT
              ![t].todo = Tail(@), ![t].queried = @ + 1,
              ![t].pc = IF Len(stThreads[t].todo) = 1 THEN "test" ELSE "callback",
              ![t].late = @ \cup ({Head(stThreads[t].todo)} \cap stSmp.stopped),
              ![t].late_put = @ \/ (Len(stThreads[t].todo) = 1 /\ stSmp.stop_returned)]
        /\ UNCHANGED <<stSmp, stHasStart, stUser, stCalls, stReturned, stActivated, stClock>>
        /\ UNCHANGED StOthers

StNext ==
    \/ StStart
    \/ StSourceStart
    \/ StSourceRaise
    \/ StSetTime
    \/ StThreadStart
    \/ StSetActive
    \/ StStop
    \/ StSourceStop
    \/ StStopEvent
    \/ StStopJoin
    \/ StTimerTest
    \/ StTimerQuery

----------------------------------------------------------------------------
(* A DataBuffer and its copy (buffers.py).  self._data is a reference to a   *)
(* dict object: cpHeap holds the dict objects and cpRef[i] is the dict that  *)
(* buffer i refers to (0 while buffer 2 does not exist).  An assignment to   *)
(* self._data binds a new dict; a store result[k] = ... changes the dict     *)
(* object, for every buffer that refers to it.                               *)

\* largest number of samples handed to the two buffers in one behaviour
MaxCpSamples == 2

DictIds == {1, 2}

Other(i) == 3 - i

\* a dict object that the other buffer does not refer to: what an expression
\* that builds a dict ({}, a comprehension, dict.copy()) evaluates to
NewDict(otherRef) == CHOOSE d \in DictIds : d # otherRef

\* (a copy that hands the dict object itself to the new buffer)
DataBuffer__copy__alias(heap, ref, maxlen) == [heap |-> heap, ref |-> ref]

\* DataBuffer.__copy__: DataBuffer(self.maxlen, self._data.copy()); __init__
\* keeps the dict it is given, or binds the sliced one: [heap, ref]
DataBuffer__copy__(heap, ref, maxlen) ==
    [heap |-> [heap EXCEPT ![NewDict(ref)] = DataBuffer_init(maxlen, heap[ref]).data],
     ref |-> NewDict(ref)]

\* DataBuffer.clear: self._data = {}
DataBuffer_clear(heap, ref, otherRef) ==
    [heap |-> [heap EXCEPT ![NewDict(otherRef)] = EmptyDict], ref |-> NewDict(otherRef)]

\* the dict self._data refers to once _init_cols_if_needed has run
Ref_init_cols_if_needed(heap, ref, otherRef) ==
    IF DataBuffer_len(heap[ref]) = 0 THEN NewDict(otherRef) ELSE ref

\* Buffer.extend on a DataBuffer whose dict is heap[ref]: _init_cols_if_needed
\* binds a new dict when len(self) == 0, _concat stores into the dict bound
\* then, and the trim to maxlen binds the sliced dict: [heap, ref, err]
Heap_extend(heap, ref, otherRef, maxlen, new, r1) ==
    LET c == DataBuffer_concat(DataBuffer_init_cols_if_needed(heap[ref], new), new, 1) IN
    IF c.err # None \/ maxlen = <<>>
    THEN [heap |-> [heap EXCEPT ![r1] = c.data], ref |-> r1, err |-> c.err]
    ELSE [heap |-> [heap EXCEPT ![r1] = c.data,
                                ![NewDict(otherRef)] = Dict_slice(c.data, maxlen[1], TRUE)],
          ref |-> NewDict(otherRef), err |-> None]

\* DataBuffer.__setitem__: self._data[key] = value
Heap_setitem(heap, ref, key, value) ==
    [heap |-> [heap EXCEPT ![ref] = DataBuffer_setitem(@, key, value)], ref |-> ref]

\* the new data of one extend: one channel, or both with chunks of one length
CpNewData(c) ==
    {<< <<k, Arr(sh, Fresh(c, n))>> >> : k \in Names, sh \in Shapes, n \in 0..MaxChunk}
    \cup {<< <<"a", Arr("()", Fresh(c, n))>>, <<"b", Arr(sh, Fresh(c, n))>> >> :
             sh \in Shapes, n \in 1..MaxChunk}

\* the content of buffer i
Content(i) == cpHeap[cpRef[i]]

\* the heap without the dict objects that no buffer refers to any more
Collect(heap, refs) ==
    [d \in DictIds |-> IF \E i \in 1..2 : refs[i] = d THEN heap[d] ELSE EmptyDict]

\* the buffers that exist
Buffers == {i \in 1..2 : cpRef[i] # 0}

\* the buffer is made of a mapping with at most one sample per channel
CpInit ==
    /\ \E m \in Maxlens, seed \in {x \in Seeds : DataBuffer_len(x) <= 1} :
          /\ cpMaxlen = m
          /\ cpHeap = [d \in DictIds |-> IF d = 1 THEN DataBuffer_init(m, seed).data
                                         ELSE EmptyDict]
    /\ cpRef = <<1, 0>>
    /\ cpClock = 0
    /\ cpCall = [op |-> "init", buf |-> 1, other |-> EmptyDict, err |-> None]

\* b2 = b.copy()
CpCopy ==
    /\ cpRef[2] = 0
    /\ LET r == DataBuffer__copy__(cpHeap, cpRef[1], cpMaxlen) IN
          /\ cpHeap' = Collect(r.heap, <<cpRef[1], r.ref>>)
          /\ cpRef' = <<cpRef[1], r.ref>>
          /\ cpCall' = [op |-> "copy", buf |-> 1, other |-> cpHeap[cpRef[1]], err |-> None]
    /\ UNCHANGED <<cpMaxlen, cpClock>>
    /\ UNCHANGED CpOthers

CpExtendWith(op, i, new) ==
    LET r == Heap_extend(cpHeap, cpRef[i], cpRef[Other(i)], cpMaxlen, new,
                         Ref_init_cols_if_needed(cpHeap, cpRef[i], cpRef[Other(i)]))
    IN /\ cpHeap' = Collect(r.heap, [cpRef EXCEPT ![i] = r.ref])
       /\ cpRef' = [cpRef EXCEPT ![i] = r.ref]
       /\ cpClock' = cpClock + ChunkLen(new)
       /\ cpCall' = [op |-> op, buf |-> i, err |-> r.err,
                     other |-> IF cpRef[Other(i)] = 0 THEN EmptyDict ELSE Content(Other(i))]

\* extend(new) on either buffer
CpExtend ==
    /\ \E i \in Buffers, new \in CpNewData(cpClock) :
          /\ cpClock + ChunkLen(new) <= MaxCpSamples
          /\ CpExtendWith("extend", i, new)
    /\ UNCHANGED cpMaxlen
    /\ UNCHANGED CpOthers

\* append(pt) on either buffer: extend with chunks of one sample
CpAppend ==
    /\ \E i \in Buffers, new \in CpNewData(cpClock) :
          /\ cpClock + 1 <= MaxCpSamples
          /\ \A j \in 1..Len(new) : Len(new[j][2].t) = 1
          /\ CpExtendWith("append", i, new)
    /\ UNCHANGED cpMaxlen
    /\ UNCHANGED CpOthers

\* buffer[key] = value on either buffer, the value empty or of one sample
CpSetitem ==
    /\ \E i \in Buffers, k \in Names, sh \in Shapes, n \in 0..1 :
          /\ cpClock + n <= MaxCpSamples
          /\ LET r == Heap_setitem(cpHeap, cpRef[i], k, Arr(sh, Fresh(cpClock, n))) IN
                /\ cpHeap' = Collect(r.heap, [cpRef EXCEPT ![i] = r.ref])
                /\ cpRef' = [cpRef EXCEPT ![i] = r.ref]
          /\ cpClock' = cpClock + n
          /\ cpCall' = [op |-> "setitem", buf |-> i, err |-> None,
                        other |-> IF cpRef[Other(i)] = 0 THEN EmptyDict
                                  ELSE Content(Other(i))]
    /\ UNCHANGED cpMaxlen
    /\ UNCHANGED CpOthers

\* clear() on either buffer
CpClear ==
    /\ \E i \in Buffers :
          /\ LET r == DataBuffer_clear(cpHeap, cpRef[i], cpRef[Other(i)]) IN
                /\ cpHeap' = Collect(r.heap, [cpRef EXCEPT ![i] = r.ref])
                /\ cpRef' = [cpRef EXCEPT ![i] = r.ref]
          /\ cpCall' = [op |-> "clear", buf |-> i, err |-> None,
                        other |-> IF cpRef[Other(i)] = 0 THEN EmptyDict
                                  ELSE Content(Other(i))]
    /\ UNCHANGED <<cpMaxlen, cpClock>>
    /\ UNCHANGED CpOthers

CpNext == CpCopy \/ CpExtend \/ CpAppend \/ CpSetitem \/ CpClear

----------------------------------------------------------------------------
(* MicSignalSource (signal_sources/local.py): receive() runs on the audio    *)
(* callback thread and read() on the reader thread, both on self.buffer with *)
(* no lock.  The statements of Buffer.extend, copy and clear that read or    *)
(* write self.buffer._data or a dict object are the steps of the threads;    *)
(* micHeap holds the dict objects and micRef is the one _data refers to.     *)

\* number of audio chunks the callback delivers in one behaviour
MaxMicChunks == 2
\* number of read() calls in one behaviour
MaxMicReads == 3

MicDictIds == {1, 2, 3}

\* a dict object that neither self.buffer._data nor the local variable result
\* of the running extend refers to
MicNewDict(ref, result) == CHOOSE d \in MicDictIds : d # ref /\ d # result

\* the heap without the dict objects nothing refers to any more
MicCollect(heap, ref, result) ==
    [d \in MicDictIds |-> IF d = ref \/ d = result THEN heap[d] ELSE EmptyDict]

\* {"audio": data} for chunk c
AudioChunk(c) == << <<"audio", Arr("()", <<c>>)>> >>

MicInit ==
    /\ micHeap = [d \in MicDictIds |-> EmptyDict]
    /\ micRef = 1
    /\ micRecv = [pc |-> "idle", chunk |-> 0, result |-> 0]
    /\ micReader = [pc |-> "idle", value |-> EmptyDict]
    /\ micReturned = <<>>
    /\ micChunks = 0
    /\ micReads = 0

\* the stream calls receive(in_data, ...) with the next chunk
MicReceive ==
    /\ micRecv.pc = "idle"
    /\ micChunks < MaxMicChunks
    /\ micChunks' = micChunks + 1
    /\ micRecv' = [micRecv EXCEPT !.pc = "init_cols_test", !.chunk = micChunks + 1]
    /\ UNCHANGED <<micHeap, micRef, micReader, micReturned, micReads>>
    /\ UNCHANGED MicOthers

\* extend, _init_cols_if_needed: if len(self) == 0
MicInitColsTest ==
    /\ micRecv.pc = "init_cols_test"
    /\ micRecv' = [micRecv EXCEPT !.pc = IF DataBuffer_len(micHeap[micRef]) = 0
                                          THEN "init_cols_set" ELSE "concat_load"]
    /\ UNCHANGED <<micHeap, micRef, micReader, micReturned, micChunks, micReads>>
    /\ UNCHANGED MicOthers

\* extend, _init_cols_if_needed: self._data = {k: np.empty(...) for k, v in data.items()}
MicInitColsSet ==
    /\ micRecv.pc = "init_cols_set"
    /\ LET d == MicNewDict(micRef, micRecv.result) IN
          /\ micRef' = d
          /\ micHeap' = MicCollect(
                [micHeap EXCEPT ![d] = [k \in {"audio"} |-> Arr("()", <<>>)]], d, 0)
    /\ micRecv' = [micRecv EXCEPT !.pc = "concat_load"]
    /\ UNCHANGED <<micReader, micReturned, micChunks, micReads>>
    /\ UNCHANGED MicOthers

\* extend: the argument list [self._data, data] of _concat is evaluated
MicConcatLoad ==
    /\ micRecv.pc = "concat_load"
    /\ micRecv' = [micRecv EXCEPT !.pc = "concat_store", !.result = micRef]
    /\ UNCHANGED <<micHeap, micRef, micReader, micReturned, micChunks, micReads>>
    /\ UNCHANGED MicOthers

\* extend, _concat: the loop stores into the dict result refers to
MicConcatStore ==
    /\ micRecv.pc = "concat_store"
    /\ micHeap' = [micHeap EXCEPT ![micRecv.result] =
                      DataBuffer_concat(@, AudioChunk(micRecv.chunk), 1).data]
    /\ micRecv' = [micRecv EXCEPT !.pc = "assign"]
    /\ UNCHANGED <<micRef, micReader, micReturned, micChunks, micReads>>
    /\ UNCHANGED MicOthers

\* extend: self._data = (what _concat returned); receive returns
MicAssign ==
    /\ micRecv.pc = "assign"
    /\ micRef' = micRecv.result
    /\ micHeap' = MicCollect(micHeap, micRecv.result, 0)
    /\ micRecv' = [micRecv EXCEPT !.pc = "idle", !.result = 0]
    /\ UNCHANGED <<micReader, micReturned, micChunks, micReads>>
    /\ UNCHANGED MicOthers

\* the reader thread calls read()
MicRead ==
    /\ micReader.pc = "idle"
    /\ micReads < MaxMicReads
    /\ micReads' = micReads + 1
    /\ micReader' = [micReader EXCEPT !.pc = "copy"]
    /\ UNCHANGED <<micHeap, micRef, micRecv, micReturned, micChunks>>
    /\ UNCHANGED MicOthers

\* read: value = self.buffer.copy(), a buffer on a copy of the dict
MicReadCopy ==
    /\ micReader.pc = "copy"
    /\ micReader' = [micReader EXCEPT !.pc = "clear", !.value = micHeap[micRef]]
    /\ UNCHANGED <<micHeap, micRef, micRecv, micReturned, micChunks, micReads>>
    /\ UNCHANGED MicOthers

\* read: self.buffer.clear(), that is self._data = {}; return value
MicReadClear ==
    /\ micReader.pc = "clear"
    /\ LET d == MicNewDict(micRef, micRecv.result) IN
          /\ micRef' = d
          /\ micHeap' = MicCollect([micHeap EXCEPT ![d] = EmptyDict], d, micRecv.result)
    /\ micReader' = [micReader EXCEPT !.pc = "idle", !.value = EmptyDict]
    /\ micReturned' = Append(micReturned, micReader.value)
    /\ UNCHANGED <<micRecv, micChunks, micReads>>
    /\ UNCHANGED MicOthers

MicNext ==
    \/ MicReceive \/ MicInitColsTest \/ MicInitColsSet \/ MicConcatLoad
    \/ MicConcatStore \/ MicAssign
    \/ MicRead \/ MicReadCopy \/ MicReadClear

----------------------------------------------------------------------------
(* Recording while the loop runs (system.py): start(), stop(),               *)
(* start_recording() and stop_recording() of the caller and _busy_loop of    *)
(* every thread start() created, one statement a step.  A recorder is an     *)
(* object of its own; a non-empty batch is named by the number of its read,  *)
(* an empty one is 0.                                                        *)

\* number of threads created in one behaviour
MaxRsStarts == 2
\* number of non-empty batches the source returns in one behaviour
MaxRsBatches == 2
\* number of recorders start_recording() is given in one behaviour
MaxRsRecorders == 2

\* the recorder a batch dispatched now is recorded by: recording is active
\* when is_recording is True and the recorder is there (0 otherwise)
ActiveRecorder(s) == IF s.is_recording THEN s.recorder ELSE 0

\* recorder.write(data), called by _read: the batch is with the recorder, and
\* a call after stop() is a call on a finalized recorder
Recorder_write(r, batch) ==
    IF r.stopped THEN [r EXCEPT !.after_stop = TRUE]
    ELSE [r EXCEPT !.written = IF batch = 0 THEN @ ELSE @ \cup {batch}]

RsInit ==
    /\ rs = [is_active |-> FALSE, is_recording |-> FALSE, recorder |-> 0,
             main_thread |-> 0, source |-> "new", batches |-> 0]
    /\ rsThreads = <<>>
    /\ rsUser = [pc |-> "ready", via |-> "user", err |-> None]
    /\ rsRecorders = <<>>
    /\ rsDispatched = {}

\* start(), whatever the state of the System, the source starting: the thread
\* it creates is the first to see what start() assigned
RsStart ==
    /\ rsUser.pc = "ready"
    /\ Len(rsThreads) < MaxRsStarts
    /\ rs' = [System_start(rs, FALSE).sys EXCEPT !.main_thread = Len(rsThreads) + 1]
    /\ rsThreads' = Append(rsThreads, [pc |-> "while", batch |-> 0, rec |-> 0, err |-> None])
    /\ UNCHANGED <<rsUser, rsRecorders, rsDispatched>>
    /\ UNCHANGED RsOthers

\* stop(): self.is_active = False, and the caller is at main_thread.join()
RsStopBegin ==
    /\ rsUser.pc = "ready"
    /\ rs.main_thread # 0
    /\ rs' = [rs EXCEPT !.is_active = FALSE]
    /\ rsUser' = [rsUser EXCEPT !.pc = "join", !.via = "stop"]
    /\ UNCHANGED <<rsThreads, rsRecorders, rsDispatched>>
    /\ UNCHANGED RsOthers

\* stop(): join() returns once main_thread has ended; if self.is_recording,
\* stop_recording() is called, and source.stop() comes after it
RsStopJoin ==
    /\ rsUser.pc = "join"
    /\ Ended(rsThreads[rs.main_thread])
    /\ rsUser' = [rsUser EXCEPT !.pc = IF rs.is_recording THEN "recorder.stop" ELSE "source.stop"]
    /\ UNCHANGED <<rs, rsThreads, rsRecorders, rsDispatched>>
    /\ UNCHANGED RsOthers

\* stop(): self.source.stop(), and stop() returns
RsSourceStop ==
    /\ rsUser.pc = "source.stop"
    /\ rs' = [rs EXCEPT !.source = "stopped"]
    /\ rsUser' = [rsUser EXCEPT !.pc = "ready", !.via = "user"]
    /\ UNCHANGED <<rsThreads, rsRecorders, rsDispatched>>
    /\ UNCHANGED RsOthers

\* start_recording(path, recorder): self.recorder = recorder, a new object
RsSetRecorder ==
    /\ rsUser.pc = "ready"
    /\ Len(rsRecorders) < MaxRsRecorders
    /\ rsRecorders' = Append(rsRecorders, [stopped |-> FALSE, written |-> {}, after_stop |-> FALSE,
                                           by_stop |-> FALSE, alive |-> FALSE])
    /\ rs' = [rs EXCEPT !.recorder = Len(rsRecorders) + 1]
    /\ rsUser' = [rsUser EXCEPT !.pc = "is_recording"]
    /\ UNCHANGED <<rsThreads, rsDispatched>>
    /\ UNCHANGED RsOthers

\* start_recording: self.is_recording = True
RsSetRecording ==
    /\ rsUser.pc = "is_recording"
    /\ rs' = [rs EXCEPT !.is_recording = TRUE]
    /\ rsUser' = [rsUser EXCEPT !.pc = "ready"]
    /\ UNCHANGED <<rsThreads, rsRecorders, rsDispatched>>
    /\ UNCHANGED RsOthers

\* stop_recording() called by the user
RsStopRecording ==
    /\ rsUser.pc = "ready"
    /\ rsUser' = [rsUser EXCEPT !.pc = "recorder.stop", !.err = None]
    /\ UNCHANGED <<rs, rsThreads, rsRecorders, rsDispatched>>
    /\ UNCHANGED RsOthers

\* stop_recording: self.recorder.stop(), the AttributeError of None for the
\* caller when there is no recorder; the recorder keeps whether stop() of the
\* System called it and whether a thread of the System was alive then
RsRecorderStop ==
    /\ rsUser.pc = "recorder.stop"
    /\ IF rs.recorder = 0
       THEN /\ rsUser' = [pc |-> IF rsUser.via = "stop" THEN "source.stop" ELSE "ready",
                          via |-> rsUser.via, err |-> "AttributeError"]
            /\ UNCHANGED rsRecorders
       ELSE /\ rsRecorders' = [rsRecorders EXCEPT ![rs.recorder] =
                   [@ EXCEPT !.stopped = TRUE,
                             !.by_stop = rsUser.via = "stop",
                             !.alive = \E t \in 1..Len(rsThreads) : ~Ended(rsThreads[t])]]
            /\ rsUser' = [rsUser EXCEPT !.pc = "recorder.none"]
    /\ UNCHANGED <<rs, rsThreads, rsDispatched>>
    /\ UNCHANGED RsOthers

\* stop_recording: self.recorder = None
RsRecorderNone ==
    /\ rsUser.pc = "recorder.none"
    /\ rs' = [rs EXCEPT !.recorder = 0]
    /\ rsUser' = [rsUser EXCEPT !.pc = "recording.off"]
    /\ UNCHANGED <<rsThreads, rsRecorders, rsDispatched>>
    /\ UNCHANGED RsOthers

\* stop_recording: self.is_recording = False; inside stop() the source is
\* stopped next
RsRecordingOff ==
    /\ rsUser.pc = "recording.off"
    /\ rs' = [rs EXCEPT !.is_recording = FALSE]
    /\ rsUser' = [rsUser EXCEPT !.pc = IF rsUser.via = "stop" THEN "source.stop" ELSE "ready"]
    /\ UNCHANGED <<rsThreads, rsRecorders, rsDispatched>>
    /\ UNCHANGED RsOthers

\* _busy_loop of one thread: while self.is_active
RsLoopTest ==
    /\ \E t \in 1..Len(rsThreads) :
          /\ rsThreads[t].pc = "while"
          /\ rsThreads' = [rsThreads EXCEPT ![t].pc = IF rs.is_active THEN "read" ELSE "done"]
    /\ UNCHANGED <<rs, rsUser, rsRecorders, rsDispatched>>
    /\ UNCHANGED RsOthers

\* _read: data = self.source.read(), a new batch or an empty buffer
RsRead ==
    /\ \E t \in 1..Len(rsThreads), nonempty \in BOOLEAN :
          /\ rsThreads[t].pc = "read"
          /\ nonempty => rs.batches < MaxRsBatches
          /\ rsThreads' = [rsThreads EXCEPT ![t].pc = "is_recording",
                                            ![t].batch = IF nonempty THEN rs.batches + 1 ELSE 0]
          /\ rs' = [rs EXCEPT !.batches = IF nonempty THEN @ + 1 ELSE @]
    /\ UNCHANGED <<rsUser, rsRecorders, rsDispatched>>
    /\ UNCHANGED RsOthers

\* _read: if self.is_recording
RsRecordTest ==
    /\ \E t \in 1..Len(rsThreads) :
          /\ rsThreads[t].pc = "is_recording"
          /\ rsThreads' = [rsThreads EXCEPT ![t].pc = IF rs.is_recording THEN "recorder" ELSE "feeds"]
    /\ UNCHANGED <<rs, rsUser, rsRecorders, rsDispatched>>
    /\ UNCHANGED RsOthers

\* _read: self.recorder is loaded, and .write of None is an AttributeError
\* that ends the thread
RsRecorderLoad ==
    /\ \E t \in 1..Len(rsThreads) :
          /\ rsThreads[t].pc = "recorder"
          /\ rsThreads' = [rsThreads EXCEPT ![t] =
                IF rs.recorder = 0 THEN [@ EXCEPT !.pc = "dead", !.err = "AttributeError", !.batch = 0]
                ELSE [@ EXCEPT !.pc = "write", !.rec = rs.recorder]]
    /\ UNCHANGED <<rs, rsUser, rsRecorders, rsDispatched>>
    /\ UNCHANGED RsOthers

\* _read: write(data) of the recorder that was loaded
RsRecorderWrite ==
    /\ \E t \in 1..Len(rsThreads) :
          /\ rsThreads[t].pc = "write"
          /\ rsRecorders' = [rsRecorders EXCEPT ![rsThreads[t].rec] =
                                Recorder_write(@, rsThreads[t].batch)]
          /\ rsThreads' = [rsThreads EXCEPT ![t].pc = "feeds", ![t].rec = 0]
    /\ UNCHANGED <<rs, rsUser, rsDispatched>>
    /\ UNCHANGED RsOthers

\* _busy_loop: a non-empty batch is passed to the feeds (the pipeline and the
\* feeds return), an empty one is not
RsFeeds ==
    /\ \E t \in 1..Len(rsThreads) :
          /\ rsThreads[t].pc = "feeds"
          /\ rsDispatched' = IF rsThreads[t].batch = 0 THEN rsDispatched
                             ELSE rsDispatched \cup {[batch |-> rsThreads[t].batch,
                                                      rec |-> ActiveRecorder(rs)]}
          /\ rsThreads' = [rsThreads EXCEPT ![t].pc = "sleep", ![t].batch = 0]
    /\ UNCHANGED <<rs, rsUser, rsRecorders>>
    /\ UNCHANGED RsOthers

\* time.sleep(1 / self.update_rate)
RsSleep ==
    /\ \E t \in 1..Len(rsThreads) :
          /\ rsThreads[t].pc = "sleep"
          /\ rsThreads' = [rsThreads EXCEPT ![t].pc = "while"]
    /\ UNCHANGED <<rs, rsUser, rsRecorders, rsDispatched>>
    /\ UNCHANGED RsOthers

RsNext ==
    \/ RsStart \/ RsStopBegin \/ RsStopJoin \/ RsSourceStop
    \/ RsSetRecorder \/ RsSetRecording
    \/ RsStopRecording \/ RsRecorderStop \/ RsRecorderNone \/ RsRecordingOff
    \/ RsLoopTest \/ RsRead \/ RsRecordTest \/ RsRecorderLoad \/ RsRecorderWrite
    \/ RsFeeds \/ RsSleep

----------------------------------------------------------------------------
(* start() and stop() of the SignalSystem (signal_system.py), one statement  *)
(* a step, with the threads start() creates.  No recording is started, so    *)
(* stop() passes its test of is_recording.                                   *)

\* number of threads created in one behaviour
MaxSsStarts == 2

SsInit ==
    /\ ss = [is_active |-> FALSE, source |-> "new"]
    /\ ssThreads = <<>>
    /\ ssUser = [pc |-> "ready", thread |-> 0, running |-> FALSE, stopped |-> FALSE]
    /\ ssLate = FALSE

\* start(): self.source.start()
SsStart ==
    /\ ssUser.pc = "ready"
    /\ Len(ssThreads) < MaxSsStarts
    /\ ss' = [ss EXCEPT !.source = "started"]
    /\ ssUser' = [ssUser EXCEPT !.pc = "t.start", !.running = FALSE, !.stopped = FALSE]
    /\ UNCHANGED <<ssThreads, ssLate>>
    /\ UNCHANGED SsOthers

\* start(): t = Thread(target=self._busy_loop); t.start()
SsThreadStart ==
    /\ ssUser.pc = "t.start"
    /\ ssThreads' = Append(ssThreads, [pc |-> "while"])
    /\ ssUser' = [ssUser EXCEPT !.pc = "is_active", !.thread = Len(ssThreads) + 1]
    /\ UNCHANGED <<ss, ssLate>>
    /\ UNCHANGED SsOthers

\* start(): self.is_active = True, and start() returns
SsSetActive ==
    /\ ssUser.pc = "is_active"
    /\ ss' = [ss EXCEPT !.is_active = TRUE]
    /\ ssUser' = [ssUser EXCEPT !.pc = "ready", !.running = TRUE]
    /\ UNCHANGED <<ssThreads, ssLate>>
    /\ UNCHANGED SsOthers

\* stop(): self.source.stop(); is_recording is False
SsStop ==
    /\ ssUser.pc = "ready"
    /\ ssUser.thread # 0
    /\ ss' = [ss EXCEPT !.source = "stopped"]
    /\ ssUser' = [ssUser EXCEPT !.pc = "is_active.off", !.running = FALSE]
    /\ UNCHANGED <<ssThreads, ssLate>>
    /\ UNCHANGED SsOthers

\* stop(): self.is_active = False, and stop() returns; no thread is joined
SsSetInactive ==
    /\ ssUser.pc = "is_active.off"
    /\ ss' = [ss EXCEPT !.is_active = FALSE]
    /\ ssUser' = [ssUser EXCEPT !.pc = "ready", !.stopped = TRUE]
    /\ UNCHANGED <<ssThreads, ssLate>>
    /\ UNCHANGED SsOthers

\* _busy_loop of one thread: while self.is_active
SsLoopTest ==
    /\ \E t \in 1..Len(ssThreads) :
          /\ ssThreads[t].pc = "while"
          /\ ssThreads' = [ssThreads EXCEPT ![t].pc = IF ss.is_active THEN "read" ELSE "done"]
    /\ UNCHANGED <<ss, ssUser, ssLate>>
    /\ UNCHANGED SsOthers

\* new_data = self._read(): the source is read; ssLate keeps that a read
\* came when stop() had returned and start() was not called again
SsRead ==
    /\ \E t \in 1..Len(ssThreads) :
          /\ ssThreads[t].pc = "read"
          /\ ssThreads' = [ssThreads EXCEPT ![t].pc = "feeds"]
    /\ ssLate' = (ssLate \/ ssUser.stopped)
    /\ UNCHANGED <<ss, ssUser>>
    /\ UNCHANGED SsOthers

\* for feed in self.data_feeds: feed(new_data)
SsFeeds ==
    /\ \E t \in 1..Len(ssThreads) :
          /\ ssThreads[t].pc = "feeds"
          /\ ssThreads' = [ssThreads EXCEPT ![t].pc = "sleep"]
    /\ UNCHANGED <<ss, ssUser, ssLate>>
    /\ UNCHANGED SsOthers

\* time.sleep(1 / self.update_rate)
SsSleep ==
    /\ \E t \in 1..Len(ssThreads) :
          /\ ssThreads[t].pc = "sleep"
          /\ ssThreads' = [ssThreads EXCEPT ![t].pc = "while"]
    /\ UNCHANGED <<ss, ssUser, ssLate>>
    /\ UNCHANGED SsOthers

SsNext ==
    \/ SsStart \/ SsThreadStart \/ SsSetActive \/ SsStop \/ SsSetInactive
    \/ SsLoopTest \/ SsRead \/ SsFeeds \/ SsSleep

----------------------------------------------------------------------------
(* A System with a Sampler as its source (system.py, signal_sources/         *)
(* sampler.py): the BusyThread of the Sampler puts samples on the queue, the *)
(* thread of the System reads them and calls the feeds, and the user         *)
(* registers and deregisters feeds and stops the System.  The System has no  *)
(* functions and no recorder, and the feeds return.  A sample is the number  *)
(* of its put, a buffer the sequence of its samples, data_feeds the sequence *)
(* of the ids in the order of the dict.                                      *)

\* number of samples the timer callback enqueues in one behaviour
MaxLvPuts == 2

\* (a loop that calls the feeds for no buffer)
System_dispatches_never(n) == FALSE

\* _busy_loop: if len(new_data) > 0
System_dispatches(n) == n > 0

\* (a loop over self.data_feeds.values() itself: a dict that changed its size
\* during the iteration is a RuntimeError)
Feed_next_live(current_feeds, i, data_feeds) ==
    IF Len(data_feeds) # Len(current_feeds) THEN [feed |-> None, err |-> "RuntimeError"]
    ELSE [feed |-> data_feeds[i], err |-> None]

\* _busy_loop: the for loop takes the next feed of the list current_feeds,
\* whatever self.data_feeds is by now: [feed, err]
Feed_next(current_feeds, i, data_feeds) == [feed |-> current_feeds[i], err |-> None]

\* register_data_feed(feed_id, callback): [feeds, err]
System_register_data_feed(data_feeds, id) ==
    IF InSeq(data_feeds, id) THEN [feeds |-> data_feeds, err |-> "ValueError"]
    ELSE [feeds |-> Append(data_feeds, id), err |-> None]

\* deregister_data_feed(feed_id): self.data_feeds.pop(feed_id): [feeds, err]
System_deregister_data_feed(data_feeds, id) ==
    IF InSeq(data_feeds, id) THEN [feeds |-> SeqRemove(data_feeds, id), err |-> None]
    ELSE [feeds |-> data_feeds, err |-> "KeyError"]

\* the thread of the System between two iterations
LvNoLocals == [pc |-> "while", data |-> <<>>, current_feeds |-> <<>>, i |-> 0,
               called |-> <<>>, err |-> None]

LvInit ==
    /\ lv = [is_active |-> FALSE, data_feeds |-> <<>>, stop_event |-> FALSE]
    /\ lvQueue = <<>>
    /\ lvTimer = "none"
    /\ lvThread = [LvNoLocals EXCEPT !.pc = "none"]
    /\ lvUser = [pc |-> "ready", op |-> "none", id |-> 0, err |-> None, stopped |-> FALSE]
    /\ lvPut = 0
    /\ lvDispatched = {}

\* start() of a System that was not started: source.start() starts the
\* BusyThread, is_active = True, and the main thread is started
LvStart ==
    /\ lvUser.pc = "ready"
    /\ lvThread.pc = "none"
    /\ lv' = [lv EXCEPT !.is_active = TRUE]
    /\ lvTimer' = "test"
    /\ lvThread' = LvNoLocals
    /\ lvUser' = [lvUser EXCEPT !.op = "start", !.id = 0, !.err = None]
    /\ UNCHANGED <<lvQueue, lvPut, lvDispatched>>
    /\ UNCHANGED LvOthers

\* stop() of the started System: is_active = False, then main_thread.join()
LvStop ==
    /\ lvUser.pc = "ready"
    /\ lvThread.pc # "none"
    /\ ~lvUser.stopped
    /\ lv' = [lv EXCEPT !.is_active = FALSE]
    /\ lvUser' = [lvUser EXCEPT !.pc = "join", !.op = "stop", !.id = 0, !.err = None]
    /\ UNCHANGED <<lvQueue, lvTimer, lvThread, lvPut, lvDispatched>>
    /\ UNCHANGED LvOthers

\* stop(): join() returns when the main thread has ended, and source.stop()
\* sets the stop event of the BusyThread and joins it
LvStopJoin ==
    /\ lvUser.pc = "join"
    /\ Ended(lvThread)
    /\ lv' = [lv EXCEPT !.stop_event = TRUE]
    /\ lvUser' = [lvUser EXCEPT !.pc = "source.join"]
    /\ UNCHANGED <<lvQueue, lvTimer, lvThread, lvPut, lvDispatched>>
    /\ UNCHANGED LvOthers

\* Sampler.stop(): the BusyThread has ended, and stop() returns
LvSourceJoin ==
    /\ lvUser.pc = "source.join"
    /\ lvTimer = "done"
    /\ lvUser' = [lvUser EXCEPT !.pc = "ready", !.stopped = TRUE]
    /\ UNCHANGED <<lv, lvQueue, lvTimer, lvThread, lvPut, lvDispatched>>
    /\ UNCHANGED LvOthers

\* register_data_feed(feed_id, callback) from the user's thread
LvRegisterDataFeed ==
    /\ lvUser.pc = "ready"
    /\ \E id \in FeedIds :
          LET r == System_register_data_feed(lv.data_feeds, id) IN
             /\ lv' = [lv EXCEPT !.data_feeds = r.feeds]
             /\ lvUser' = [lvUser EXCEPT !.op = "register", !.id = id, !.err = r.err]
    /\ UNCHANGED <<lvQueue, lvTimer, lvThread, lvPut, lvDispatched>>
    /\ UNCHANGED LvOthers

\* deregister_data_feed(feed_id) from the user's thread
LvDeregisterDataFeed ==
    /\ lvUser.pc = "ready"
    /\ \E id \in FeedIds :
          LET r == System_deregister_data_feed(lv.data_feeds, id) IN
             /\ lv' = [lv EXCEPT !.data_feeds = r.feeds]
             /\ lvUser' = [lvUser EXCEPT !.op = "deregister", !.id = id, !.err = r.err]
    /\ UNCHANGED <<lvQueue, lvTimer, lvThread, lvPut, lvDispatched>>
    /\ UNCHANGED LvOthers

\* BusyThread.run: while not self._stop_event.is_set(); the thread sleeps
\* when the samples of the behaviour have been put
LvTimerTest ==
    /\ lvTimer = "test"
    /\ IF lv.stop_event THEN lvTimer' = "done"
       ELSE /\ lvPut < MaxLvPuts
            /\ lvTimer' = "callback"
    /\ UNCHANGED <<lv, lvQueue, lvThread, lvUser, lvPut, lvDispatched>>
    /\ UNCHANGED LvOthers

\* _callback(t): the sample is put on the queue; then the sleep of run
LvCallback ==
    /\ lvTimer = "callback"
    /\ lvQueue' = Queue_put(lvQueue, lvPut + 1)
    /\ lvPut' = lvPut + 1
    /\ lvTimer' = "test"
    /\ UNCHANGED <<lv, lvThread, lvUser, lvDispatched>>
    /\ UNCHANGED LvOthers

\* _busy_loop: while self.is_active; _read calls source.read(): data = DataBuffer()
LvLoopTest ==
    /\ lvThread.pc = "while"
    /\ lvThread' = [lvThread EXCEPT !.pc = IF lv.is_active THEN "read" ELSE "done"]
    /\ UNCHANGED <<lv, lvQueue, lvTimer, lvUser, lvPut, lvDispatched>>
    /\ UNCHANGED LvOthers

\* Sampler.read: while not self.buffer.empty(): d = self.buffer.get();
\* data.append(d); with the queue empty read and _read return data
LvRead ==
    /\ lvThread.pc = "read"
    /\ IF lvQueue = <<>>
       THEN /\ lvThread' = [lvThread EXCEPT !.pc = "check"]
            /\ UNCHANGED lvQueue
       ELSE LET g == Queue_get(lvQueue) IN
               /\ lvQueue' = g.rest
               /\ lvThread' = [lvThread EXCEPT !.data = Append(@, g.item)]
    /\ UNCHANGED <<lv, lvTimer, lvUser, lvPut, lvDispatched>>
    /\ UNCHANGED LvOthers

\* _busy_loop: if len(new_data) > 0: current_feeds = list(self.data_feeds.values())
LvCheck ==
    /\ lvThread.pc = "check"
    /\ lvThread' = IF System_dispatches(Len(lvThread.data))
                   THEN [lvThread EXCEPT !.pc = "feeds", !.current_feeds = lv.data_feeds, !.i = 1]
                   ELSE [lvThread EXCEPT !.pc = "sleep"]
    /\ UNCHANGED <<lv, lvQueue, lvTimer, lvUser, lvPut, lvDispatched>>
    /\ UNCHANGED LvOthers

\* for feed in current_feeds: feed(new_data), and the feed returns
LvFeed ==
    /\ lvThread.pc = "feeds"
    /\ lvThread.i <= Len(lvThread.current_feeds)
    /\ LET r == Feed_next(lvThread.current_feeds, lvThread.i, lv.data_feeds) IN
          lvThread' = IF r.err # None THEN [lvThread EXCEPT !.pc = "dead", !.err = r.err]
                      ELSE [lvThread EXCEPT !.i = @ + 1,
                                            !.called = Append(@, [feed |-> r.feed, data |-> lvThread.data])]
    /\ UNCHANGED <<lv, lvQueue, lvTimer, lvUser, lvPut, lvDispatched>>
    /\ UNCHANGED LvOthers

\* the for loop is over: the buffer has been passed to every feed of the list
LvFeedsDone ==
    /\ lvThread.pc = "feeds"
    /\ lvThread.i > Len(lvThread.current_feeds)
    /\ lvThread' = [lvThread EXCEPT !.pc = "sleep"]
    /\ lvDispatched' = lvDispatched \cup {lvThread.data[j] : j \in 1..Len(lvThread.data)}
    /\ UNCHANGED <<lv, lvQueue, lvTimer, lvUser, lvPut>>
    /\ UNCHANGED LvOthers

\* time.sleep(1 / self.update_rate), and the locals of the iteration are gone
LvSleep ==
    /\ lvThread.pc = "sleep"
    /\ lvThread' = LvNoLocals
    /\ UNCHANGED <<lv, lvQueue, lvTimer, lvUser, lvPut, lvDispatched>>
    /\ UNCHANGED LvOthers

\* the steps of the user that begin a call
LvUserNext == LvStart \/ LvStop \/ LvRegisterDataFeed \/ LvDeregisterDataFeed

\* the steps inside stop(), after its first statement
LvStopNext == LvStopJoin \/ LvSourceJoin

\* the steps of the BusyThread
LvTimerNext == LvTimerTest \/ LvCallback

\* the steps of the thread of the System
LvThreadNext == LvLoopTest \/ LvRead \/ LvCheck \/ LvFeed \/ LvFeedsDone \/ LvSleep

LvNext == LvUserNext \/ LvStopNext \/ LvTimerNext \/ LvThreadNext

----------------------------------------------------------------------------
(* Specifications: one per component, the other components idle *)

BufferInit == BufInit /\ WinIdle /\ IntIdle /\ PipeIdle /\ SysIdle /\ SmpIdle /\ SerIdle /\ DetIdle /\ LcIdle /\ RecIdle /\ RunIdle /\ DlyIdle /\ CmbIdle /\ StIdle /\ CpIdle /\ MicIdle /\ RsIdle /\ SsIdle /\ LvIdle
SpecBuffer == BufferInit /\ [][BufNext]_vars

NumpyBufferInit == BufInit /\ IsNumpy /\ WinIdle /\ IntIdle /\ PipeIdle /\ SysIdle /\ SmpIdle /\ SerIdle /\ DetIdle /\ LcIdle /\ RecIdle /\ RunIdle /\ DlyIdle /\ CmbIdle /\ StIdle /\ CpIdle /\ MicIdle /\ RsIdle /\ SsIdle /\ LvIdle
SpecNumpy == NumpyBufferInit /\ [][NumpyNext]_vars

BufferItemsInit == BufItemsInit /\ WinIdle /\ IntIdle /\ PipeIdle /\ SysIdle /\ SmpIdle /\ SerIdle /\ DetIdle /\ LcIdle /\ RecIdle /\ RunIdle /\ DlyIdle /\ CmbIdle /\ StIdle /\ CpIdle /\ MicIdle /\ RsIdle /\ SsIdle /\ LvIdle
SpecBufferItems == BufferItemsInit /\ [][BufItemsNext]_vars

WindowedInit == WinInit /\ BufIdle /\ IntIdle /\ PipeIdle /\ SysIdle /\ SmpIdle /\ SerIdle /\ DetIdle /\ LcIdle /\ RecIdle /\ RunIdle /\ DlyIdle /\ CmbIdle /\ StIdle /\ CpIdle /\ MicIdle /\ RsIdle /\ SsIdle /\ LvIdle
SpecWindowed == WindowedInit /\ [][WinNext]_vars

WindowedConfigInit == WinConfigInit /\ BufIdle /\ IntIdle /\ PipeIdle /\ SysIdle /\ SmpIdle /\ SerIdle /\ DetIdle /\ LcIdle /\ RecIdle /\ RunIdle /\ DlyIdle /\ CmbIdle /\ StIdle /\ CpIdle /\ MicIdle /\ RsIdle /\ SsIdle /\ LvIdle
SpecWindowedConfig == WindowedConfigInit /\ [][WinNext]_vars

IntegrateInit == IntInit /\ BufIdle /\ WinIdle /\ PipeIdle /\ SysIdle /\ SmpIdle /\ SerIdle /\ DetIdle /\ LcIdle /\ RecIdle /\ RunIdle /\ DlyIdle /\ CmbIdle /\ StIdle /\ CpIdle /\ MicIdle /\ RsIdle /\ SsIdle /\ LvIdle
SpecIntegrate == IntegrateInit /\ [][IntNext]_vars

DifferentiateInit == DiffInit /\ BufIdle /\ WinIdle /\ PipeIdle /\ SysIdle /\ SmpIdle /\ SerIdle /\ DetIdle /\ LcIdle /\ RecIdle /\ RunIdle /\ DlyIdle /\ CmbIdle /\ StIdle /\ CpIdle /\ MicIdle /\ RsIdle /\ SsIdle /\ LvIdle
SpecDifferentiate == DifferentiateInit /\ [][DiffNext]_vars

PipelineInit == PipeInit /\ BufIdle /\ WinIdle /\ IntIdle /\ SysIdle /\ SmpIdle /\ SerIdle /\ DetIdle /\ LcIdle /\ RecIdle /\ RunIdle /\ DlyIdle /\ CmbIdle /\ StIdle /\ CpIdle /\ MicIdle /\ RsIdle /\ SsIdle /\ LvIdle
SpecPipeline == PipelineInit /\ [][PipeNext]_vars

PipelineIdxInit == PipeIdxInit /\ BufIdle /\ WinIdle /\ IntIdle /\ SysIdle /\ SmpIdle /\ SerIdle /\ DetIdle /\ LcIdle /\ RecIdle /\ RunIdle /\ DlyIdle /\ CmbIdle /\ StIdle /\ CpIdle /\ MicIdle /\ RsIdle /\ SsIdle /\ LvIdle
SpecPipelineIdx == PipelineIdxInit /\ [][PipeNext]_vars

SystemInit == SysInit /\ BufIdle /\ WinIdle /\ IntIdle /\ PipeIdle /\ SmpIdle /\ SerIdle /\ DetIdle /\ LcIdle /\ RecIdle /\ RunIdle /\ DlyIdle /\ CmbIdle /\ StIdle /\ CpIdle /\ MicIdle /\ RsIdle /\ SsIdle /\ LvIdle
SpecSystem == SystemInit /\ [][SysNext]_vars

SamplerInit == SmpInit /\ BufIdle /\ WinIdle /\ IntIdle /\ PipeIdle /\ SysIdle /\ SerIdle /\ DetIdle /\ LcIdle /\ RecIdle /\ RunIdle /\ DlyIdle /\ CmbIdle /\ StIdle /\ CpIdle /\ MicIdle /\ RsIdle /\ SsIdle /\ LvIdle
SpecSampler == SamplerInit /\ [][SmpNext]_vars

SerializationInit == SerInit /\ BufIdle /\ WinIdle /\ IntIdle /\ PipeIdle /\ SysIdle /\ SmpIdle /\ DetIdle /\ LcIdle /\ RecIdle /\ RunIdle /\ DlyIdle /\ CmbIdle /\ StIdle /\ CpIdle /\ MicIdle /\ RsIdle /\ SsIdle /\ LvIdle
SpecSerialization == SerializationInit /\ [][SerNext]_vars

DeterminismInit == DetInit /\ BufIdle /\ WinIdle /\ IntIdle /\ PipeIdle /\ SysIdle /\ SmpIdle /\ SerIdle /\ LcIdle /\ RecIdle /\ RunIdle /\ DlyIdle /\ CmbIdle /\ StIdle /\ CpIdle /\ MicIdle /\ RsIdle /\ SsIdle /\ LvIdle
SpecDeterminism == DeterminismInit /\ [][DetNext]_vars

LifecycleInit == LcInit /\ BufIdle /\ WinIdle /\ IntIdle /\ PipeIdle /\ SysIdle /\ SmpIdle /\ SerIdle /\ DetIdle /\ RecIdle /\ RunIdle /\ DlyIdle /\ CmbIdle /\ StIdle /\ CpIdle /\ MicIdle /\ RsIdle /\ SsIdle /\ LvIdle
SpecLifecycle == LifecycleInit /\ [][LcNext]_vars

RecorderInit == RecInit /\ BufIdle /\ WinIdle /\ IntIdle /\ PipeIdle /\ SysIdle /\ SmpIdle /\ SerIdle /\ DetIdle /\ LcIdle /\ RunIdle /\ DlyIdle /\ CmbIdle /\ StIdle /\ CpIdle /\ MicIdle /\ RsIdle /\ SsIdle /\ LvIdle
SpecRecorder == RecorderInit /\ [][RecNext]_vars

WindowedRunInit == RunInit /\ BufIdle /\ WinIdle /\ IntIdle /\ PipeIdle /\ SysIdle /\ SmpIdle /\ SerIdle /\ DetIdle /\ LcIdle /\ RecIdle /\ DlyIdle /\ CmbIdle /\ StIdle /\ CpIdle /\ MicIdle /\ RsIdle /\ SsIdle /\ LvIdle
SpecWindowedRun == WindowedRunInit /\ [][RunNext]_vars

DelayInit == DlyInit /\ BufIdle /\ WinIdle /\ IntIdle /\ PipeIdle /\ SysIdle /\ SmpIdle /\ SerIdle /\ DetIdle /\ LcIdle /\ RecIdle /\ RunIdle /\ CmbIdle /\ StIdle /\ CpIdle /\ MicIdle /\ RsIdle /\ SsIdle /\ LvIdle
SpecDelay == DelayInit /\ [][DlyNext]_vars

CombineInit == CmbInit /\ BufIdle /\ WinIdle /\ IntIdle /\ PipeIdle /\ SysIdle /\ SmpIdle /\ SerIdle /\ DetIdle /\ LcIdle /\ RecIdle /\ RunIdle /\ DlyIdle /\ StIdle /\ CpIdle /\ MicIdle /\ RsIdle /\ SsIdle /\ LvIdle
SpecCombine == CombineInit /\ [][CmbNext]_vars

SamplerStartInit == StInit /\ BufIdle /\ WinIdle /\ IntIdle /\ PipeIdle /\ SysIdle /\ SmpIdle /\ SerIdle /\ DetIdle /\ LcIdle /\ RecIdle /\ RunIdle /\ DlyIdle /\ CmbIdle /\ CpIdle /\ MicIdle /\ RsIdle /\ SsIdle /\ LvIdle
SpecSamplerStart == SamplerStartInit /\ [][StNext]_vars

CopyInit == CpInit /\ BufIdle /\ WinIdle /\ IntIdle /\ PipeIdle /\ SysIdle /\ SmpIdle /\ SerIdle /\ DetIdle /\ LcIdle /\ RecIdle /\ RunIdle /\ DlyIdle /\ CmbIdle /\ StIdle /\ MicIdle /\ RsIdle /\ SsIdle /\ LvIdle
SpecCopy == CopyInit /\ [][CpNext]_vars

MicSourceInit == MicInit /\ BufIdle /\ WinIdle /\ IntIdle /\ PipeIdle /\ SysIdle /\ SmpIdle /\ SerIdle /\ DetIdle /\ LcIdle /\ RecIdle /\ RunIdle /\ DlyIdle /\ CmbIdle /\ StIdle /\ CpIdle /\ RsIdle /\ SsIdle /\ LvIdle
SpecMic == MicSourceInit /\ [][MicNext]_vars

RecordingInit == RsInit /\ BufIdle /\ WinIdle /\ IntIdle /\ PipeIdle /\ SysIdle /\ SmpIdle /\ SerIdle /\ DetIdle /\ LcIdle /\ RecIdle /\ RunIdle /\ DlyIdle /\ CmbIdle /\ StIdle /\ CpIdle /\ MicIdle /\ SsIdle /\ LvIdle
SpecRecording == RecordingInit /\ [][RsNext]_vars

SignalSystemInit == SsInit /\ BufIdle /\ WinIdle /\ IntIdle /\ PipeIdle /\ SysIdle /\ SmpIdle /\ SerIdle /\ DetIdle /\ LcIdle /\ RecIdle /\ RunIdle /\ DlyIdle /\ CmbIdle /\ StIdle /\ CpIdle /\ MicIdle /\ RsIdle /\ LvIdle
SpecSignalSystem == SignalSystemInit /\ [][SsNext]_vars

LiveInit == LvInit /\ BufIdle /\ WinIdle /\ IntIdle /\ PipeIdle /\ SysIdle /\ SmpIdle /\ SerIdle /\ DetIdle /\ LcIdle /\ RecIdle /\ RunIdle /\ DlyIdle /\ CmbIdle /\ StIdle /\ CpIdle /\ MicIdle /\ RsIdle /\ SsIdle
SpecLive == LiveInit /\ [][LvNext]_vars

\* the threads are scheduled again and again, and a call of stop() that has
\* begun goes on; the user is free to call or not
SpecLiveFair ==
    /\ LiveInit /\ [][LvNext]_vars
    /\ WF_vars(LvThreadNext) /\ WF_vars(LvTimerNext) /\ WF_vars(LvStopNext)

----------------------------------------------------------------------------
(* Claims about the buffers *)

\* the last n elements of s, all of s when it is shorter
LastN(s, n) == SubSeq(s, Len(s) - Min(n, Len(s)) + 1, Len(s))
First(s, k) == SubSeq(s, 1, Min(k, Len(s)))
Rest(s, k) == SubSeq(s, Min(k, Len(s)) + 1, Len(s))

\* C1: after any sequence of extend and append calls on a buffer created with
\* maxlen = B (a DataBuffer also right after construction from pre-seeded data),
\* every channel's time-axis length is at most B and the channel holds exactly
\* the most recent min(B, number of samples added to it) samples in arrival order.
C1_BoundedMostRecent ==
    /\ (IsNumpy /\ nb.maxlen # <<>> /\ ~popped) =>
          /\ Len(nb.data.t) <= nb.maxlen[1]
          /\ nb.data.t = LastN(nbHist, nb.maxlen[1])
    /\ (IsData /\ db.maxlen # <<>>) =>
          \A k \in DOMAIN db.data :
             /\ Len(db.data[k].t) <= db.maxlen[1]
             /\ db.data[k].t = LastN(dbHist[k], db.maxlen[1])

\* the last call was an extend or append whose new data has, for some channel
\* that holds samples, a chunk with other non-time axes
ShapeMismatch ==
    /\ bufCall.op \in {"extend", "append"}
    /\ \/ /\ IsNumpy
          /\ Len(bufCall.pre.data.t) > 0 /\ Len(bufCall.arg.t) > 0
          /\ bufCall.arg.shape # bufCall.pre.data.shape
       \/ /\ IsData
          /\ \E k \in Keys(bufCall.arg) \cap DOMAIN bufCall.pre.data :
                /\ Len(bufCall.pre.data[k].t) > 0
                /\ ItemOf(bufCall.arg, k).shape # bufCall.pre.data[k].shape

\* C8: extend with new data in which some channel's non-time axes differ from the
\* existing channel's shape raises an error and leaves the buffer exactly as it
\* was before the call (no channel lengthened, added or trimmed).
C8_ShapeMismatchAtomic ==
    ShapeMismatch =>
        /\ bufCall.err # None
        /\ IsNumpy => nb = bufCall.pre
        /\ IsData => db = bufCall.pre

\* C9: popleft(n) removes and returns the first n time-steps of every channel; on
\* an empty buffer with n > 0 it fails with an empty-buffer error and leaves the
\* buffer empty; with n above the current length it returns all available samples
\* and leaves the buffer empty.
C9_Popleft ==
    (bufCall.op \in {"popleft", "popleft_all"} /\ bufCall.arg > 0) =>
        /\ IsNumpy =>
              IF Len(bufCall.pre.data.t) = 0
              THEN bufCall.err = "IndexError" /\ Len(nb.data.t) = 0
              ELSE /\ bufCall.err = None
                   /\ bufCall.out.t = First(bufCall.pre.data.t, bufCall.arg)
                   /\ nb.data.t = Rest(bufCall.pre.data.t, bufCall.arg)
        /\ IsData =>
              IF DataBuffer_len(bufCall.pre.data) = 0
              THEN bufCall.err = "IndexError" /\ DataBuffer_len(db.data) = 0
              ELSE /\ bufCall.err = None
                   /\ DOMAIN bufCall.out = DOMAIN bufCall.pre.data
                   /\ \A k \in DOMAIN bufCall.pre.data :
                         /\ bufCall.out[k].t = First(bufCall.pre.data[k].t, bufCall.arg)
                         /\ db.data[k].t = Rest(bufCall.pre.data[k].t, bufCall.arg)

ViewedNow == IF IsNumpy THEN nb ELSE db

\* C14: view() with no argument returns the whole buffer content, and view(n)
\* returns the last (most recent) n time-steps of each channel; neither changes
\* the buffer's content or length.
C14_ViewLastN ==
    bufCall.op = "view" =>
        /\ ViewedNow = bufCall.pre
        /\ bufCall.arg = <<>> => bufCall.out = bufCall.pre.data
        /\ (bufCall.arg # <<>> /\ IsNumpy) =>
              bufCall.out.t = LastN(bufCall.pre.data.t, bufCall.arg[1])
        /\ (bufCall.arg # <<>> /\ IsData) =>
              \A k \in DOMAIN bufCall.pre.data :
                 bufCall.out[k].t = LastN(bufCall.pre.data[k].t, bufCall.arg[1])

\* C14, amended: view() with no argument returns the whole buffer content, and
\* view(n) returns the first (oldest) n time-steps of each channel, all of a
\* channel that is shorter; neither changes the buffer's content or length.
C14_ViewFirstN ==
    bufCall.op = "view" =>
        /\ ViewedNow = bufCall.pre
        /\ bufCall.arg = <<>> => bufCall.out = bufCall.pre.data
        /\ (bufCall.arg # <<>> /\ IsNumpy) =>
              /\ bufCall.out.t = First(bufCall.pre.data.t, bufCall.arg[1])
              /\ bufCall.out.shape = bufCall.pre.data.shape
        /\ (bufCall.arg # <<>> /\ IsData) =>
              /\ DOMAIN bufCall.out = DOMAIN bufCall.pre.data
              /\ \A k \in DOMAIN bufCall.pre.data :
                    /\ bufCall.out[k].t = First(bufCall.pre.data[k].t, bufCall.arg[1])
                    /\ bufCall.out[k].shape = bufCall.pre.data[k].shape

\* a view(1) of a DataBuffer channel that holds two samples
C14_Witness ==
    /\ bufCall.op = "view"
    /\ bufCall.arg = <<1>>
    /\ IsData
    /\ \E k \in DOMAIN db.data : Len(db.data[k].t) = 2 /\ Len(bufCall.out[k].t) = 1

\* C22: once a non-empty extend has set a channel, the channel's non-time axes
\* are the same after every later extend, append, popleft and item assignment.
C22_AxesFixed ==
    [][\A k \in Names :
          (dbHist[k] # <<>> /\ k \in DOMAIN db.data /\ k \in DOMAIN db'.data)
              => db'.data[k].shape = db.data[k].shape]_vars

----------------------------------------------------------------------------
(* Claims about the windowed transform *)

\* C2: for a windowed transform with 0 <= overlap < window_size, after every
\* call (chunks of any length, empty chunks included) the internal input buffer
\* holds strictly fewer than window_size samples.
C2_InputDrained ==
    (0 <= win.window_overlap /\ win.window_overlap < win.win_size) =>
        NumpyBuffer_len(win.input_buffer) < win.win_size

\* a call that drained two windows and left samples for the next window
C2_Witness ==
    /\ winCall.op = "call"
    /\ winCall.n >= 2
    /\ NumpyBuffer_len(win.input_buffer) > 0

\* C3: with upsampling enabled, every call with a chunk of k >= 1 new samples
\* returns exactly k time-steps, whether or not windows complete during the call.
C3_UpsampledCadence ==
    (winCall.op = "call" /\ win.upsample /\ winCall.arg >= 1) =>
        /\ winCall.err = None
        /\ Len(winCall.out.t) = winCall.arg

----------------------------------------------------------------------------
(* Claims about Integrate *)

\* a window_size that is not positive, or an overlap that is not below it
InvalidConfig(w) == w.win_size < 1 \/ w.window_overlap >= w.win_size

\* C13: constructing a windowed transform with a window_size that is not a
\* positive integer, or with overlap >= window_size, raises a configuration
\* error at construction time; such an instance never reaches call time.
C13_BadConfigRejected ==
    InvalidConfig(win) =>
        /\ ~Constructed(win)
        /\ winCall.op = "init"
        /\ winCall.err # None

\* C7: for Integrate in both modes, starting from a fresh instance, feeding
\* (a, b) of length N in a single call yields the same output sequence as feeding
\* any partition into consecutive non-empty chunks and concatenating the outputs.
C7_IntegrateChunkIndependent ==
    intPos = Len(intA) =>
        intOut = Integrate_call(Integrate_init(intFn.trapezoid), intA, intB).val

\* C27: for Differentiate, with a second input b and with input_b = None,
\* starting from a fresh instance, feeding an input of length N in a single call
\* yields the same output sequence as feeding any partition into consecutive
\* non-empty chunks and concatenating the outputs.
C27_DifferentiateChunkIndependent ==
    intPos = Len(intA) =>
        intOut = Differentiate_call(Differentiate_init(intFn.has_b), intA, intB).val

\* the same for the function with a second input only
DifferentiateWithB_ChunkIndependent ==
    (intFn.has_b /\ intPos = Len(intA)) =>
        intOut = Differentiate_call(Differentiate_init(intFn.has_b), intA, intB).val

----------------------------------------------------------------------------
(* Claims about the pipeline *)

\* the invocations of functions before i that wrote the name nm
WritersBefore(i, nm) == {j \in 1..(i - 1) : pipeFns[j].name = nm}

\* what function i must receive for its input nm
ExpectedInput(i, nm) ==
    IF WritersBefore(i, nm) # {}
    THEN pipeCall.calls[SetMax(WritersBefore(i, nm))].output
    ELSE pipeCall.data_in[nm]

\* C4: compute_signal_functions invokes every function of the list exactly once
\* per batch, in list order; function i receives the buffer's current values of
\* its input names (the output of the last of functions 0..i-1 that wrote the
\* name, otherwise the raw channel); its result is stored under its output name,
\* overwriting any channel of that name.
C4_ListOrderAndInputs ==
    pipeCall.op = "compute" =>
        /\ \A j \in 1..Len(pipeCall.calls) : pipeCall.calls[j].fn = j
        /\ pipeCall.err = None => Len(pipeCall.calls) = Len(pipeFns)
        /\ \A j \in 1..Len(pipeCall.calls) :
              \A k \in 1..Len(pipeFns[j].input_signals) :
                 pipeCall.calls[j].inputs[k] = ExpectedInput(j, pipeFns[j].input_signals[k])
        /\ pipeCall.err = None =>
              /\ \A j \in 1..Len(pipeFns) :
                    pipeCall.out[pipeFns[j].name] =
                        pipeCall.calls[SetMax(WritersBefore(Len(pipeFns) + 1, pipeFns[j].name))].output
              /\ \A nm \in DOMAIN pipeCall.data_in :
                    WritersBefore(Len(pipeFns) + 1, nm) = {} =>
                        pipeCall.out[nm] = pipeCall.data_in[nm]

\* a batch computed by three functions, one reading the output of an earlier one
\* and one overwriting a channel that was there
C4_Witness ==
    /\ pipeCall.op = "compute"
    /\ pipeCall.err = None
    /\ Len(pipeCall.calls) = 3
    /\ \E j \in 1..3 : \E k \in 1..Len(pipeFns[j].input_signals) :
          pipeCall.calls[j].inputs[k].kind = "fn"
    /\ \E j \in 1..3 : pipeFns[j].name = "a"

----------------------------------------------------------------------------
(* Claims about the System processing loop *)

\* C5: in the System processing loop a registered consumer is only ever called
\* with a buffer on which every function of the pipeline completed: no consumer
\* is called for a batch on which a signal function raised, and every buffer
\* dispatched is the batch's raw data with the whole list of functions applied.
C5_OnlyCompleteBatchesDispatched ==
    \A e \in sysDelivered :
       /\ e.batch \notin sysRaised
       /\ e.data = compute_signal_functions(
                       RawBuffer({"a", "b"}, e.batch, 1), e.fns, 0).data
       /\ \A i \in 1..Len(e.fns) :
             /\ e.fns[i].name \in DOMAIN e.data
             /\ e.data[e.fns[i].name].kind = "fn"

\* the thread has died on a batch on which the second function raised, after the
\* first had stored its output, with a consumer registered that was called for
\* an earlier batch
C5_Witness ==
    /\ sysThread.pc = "dead"
    /\ sysThread.batch \in sysRaised
    /\ sysThread.idx = 2
    /\ sys.data_feeds # <<>>
    /\ \E e \in sysDelivered : e.batch < sysThread.batch /\ Len(e.fns) = 2

----------------------------------------------------------------------------
(* Claims about the Sampler *)

\* the values of field k of a sequence of samples
FieldOf(q, k) == [i \in 1..Len(q) |-> q[i][k]]

\* channel k of: the buffers returned so far, then the buffer the read in
\* progress is filling, then the sample it holds, then the queue
SmpAll(k) ==
    smpReturned[k] \o Chan(smpReader.data.data, k)
    \o FieldOf(IF smpReader.pc = "append" THEN <<smpReader.d>> ELSE <<>>, k)
    \o FieldOf(smpQueue, k)

\* C6: with one timer thread enqueuing and one thread reading, the concatenation
\* of the buffers returned by successive read() calls holds the samples enqueued
\* by the callback exactly once each and in enqueue order, whatever the
\* interleaving (a sample not yet returned is still on its way to the reader),
\* and the timestamp channel is ordered by arrival.
C6_SamplerFifo ==
    /\ SmpAll("a") = [i \in 1..smpPut |-> i]
    /\ Len(SmpAll("timestamp")) = smpPut
    /\ \A i \in 1..(smpPut - 1) : SmpAll("timestamp")[i] <= SmpAll("timestamp")[i + 1]
    /\ \A i \in 1..Len(smpReturned.a) : smpReturned.a[i] = i
    /\ Len(smpReturned.timestamp) = Len(smpReturned.a)

\* a second read() has returned, all three samples are returned, and that read
\* drained a sample that the callback enqueued after the read had begun
C6_Witness ==
    /\ smpReads >= 2
    /\ Len(smpReturned.a) = 3
    /\ smpReader.pc = "idle"
    /\ 0 < smpReader.start
    /\ smpReader.start < 3
    /\ smpQueue = <<>>

----------------------------------------------------------------------------
(* Claims about failures of the pipeline *)

\* C11: when function i of the list raises during compute, one log entry naming
\* function i is emitted, the exception propagates to the caller (nothing is
\* returned), and the functions after i are not invoked for that batch.
C11_LoggedAndReraised ==
    pipeCall.op = "compute" =>
        \A j \in 1..Len(pipeCall.calls) :
           pipeCall.calls[j].fn = pipeCall.failAt =>
              /\ pipeCall.err = "Exception"
              /\ ~pipeCall.returned
              /\ pipeCall.log = <<pipeFns[pipeCall.failAt].name>>
              /\ j = Len(pipeCall.calls)
              /\ \A m \in 1..Len(pipeCall.calls) : pipeCall.calls[m].fn <= pipeCall.failAt

\* the second of three functions raised after the first had been computed
C11_Witness ==
    /\ pipeCall.op = "compute"
    /\ Len(pipeFns) = 3
    /\ pipeCall.failAt = 2
    /\ Len(pipeCall.calls) = 2
    /\ pipeCall.err = "Exception"
    /\ pipeCall.log # <<>>

\* C12: if compute_signal_functions fails on a batch, the buffer the caller
\* passed in has the same channel names and contents as before the call; if it
\* succeeds, the returned buffer holds every raw channel and the output of every
\* function (and the caller's buffer is still the raw batch).
C12_CallerBufferUntouched ==
    (pipeCall.op = "compute" /\ pipeCall.via = "compute_signal_functions") =>
        /\ pipeCall.caller = pipeCall.data_in
        /\ pipeCall.err = None =>
              /\ pipeCall.returned
              /\ DOMAIN pipeCall.data_in \subseteq DOMAIN pipeCall.out
              /\ \A j \in 1..Len(pipeFns) :
                    /\ pipeFns[j].name \in DOMAIN pipeCall.out
                    /\ pipeCall.out[pipeFns[j].name].kind = "fn"

\* compute_signal_functions failed on the third function after two derived
\* channels had been stored in its copy
C12_Witness ==
    /\ pipeCall.op = "compute"
    /\ pipeCall.via = "compute_signal_functions"
    /\ pipeCall.err # None
    /\ Len(pipeCall.calls) = 3
    /\ DOMAIN pipeCall.out # DOMAIN pipeCall.data_in
    /\ pipeCall.caller = pipeCall.data_in
----------------------------------------------------------------------------
(* Claims about serialization *)

Decoded == serDec # NoArgs

\* C15: for every instance f of an exported type, decode_signal_fn(encode_signal_fn(f))
\* succeeds and yields an instance of the same type with the same
\* input_signals, name and params.
C15_RoundTrip ==
    Decoded =>
        /\ serDec.err = "None"
        /\ serDec.fn.type = serFn.type
        /\ serDec.fn.input_signals = serFn.input_signals
        /\ serDec.fn.name = serFn.name
        /\ serDec.fn.params = serFn.params

----------------------------------------------------------------------------
(* Claims about repeated runs *)

\* C16: two runs over the same batches, each with freshly constructed instances
\* of the same function list, give the same output buffer batch by batch.
C16_RunsAgree ==
    \A k \in 1..Len(detBatches) :
        (k <= detRun[1].pos /\ k <= detRun[2].pos) => detRun[1].outs[k] = detRun[2].outs[k]

\* both runs computed a second batch, with a Combine whose two runs hold their
\* inputs in different orders
C16_Witness ==
    /\ detRun[1].pos >= 2 /\ detRun[2].pos >= 2
    /\ \E i \in 1..Len(detRun[1].insts) :
          /\ detRun[1].insts[i].kind = "combine"
          /\ detRun[1].insts[i].input_signals # detRun[2].insts[i].input_signals
    /\ detRun[1].outs[2].err = None

----------------------------------------------------------------------------
(* Claims about one read of the System *)

\* the channels the source delivers
RawKeys == {"a", "b"}

\* C17: the recorder is handed the buffer as drained from the source, raw
\* channels only; the pipeline runs only on a non-empty buffer; and a buffer
\* dispatched to a feed holds the raw channels and every derived channel.
C17_RawRecordedThenComputed ==
    /\ \A i \in 1..Len(sysRecorded) :
          sysRecorded[i].data = RawBuffer(RawKeys, sysRecorded[i].batch, 1)
    /\ sysThread.pc = "compute" => Batch_len(sysThread.raw) > 0
    /\ \A d \in sysDelivered :
          /\ DOMAIN d.data = RawKeys \cup {d.fns[i].name : i \in 1..Len(d.fns)}
          /\ \A k \in RawKeys : d.data[k] = RawVal(k, d.batch, 1)

\* a batch was recorded and then dispatched with two derived channels
C17_Witness ==
    \E d \in sysDelivered :
        /\ Len(d.fns) = 2
        /\ \E i \in 1..Len(sysRecorded) : sysRecorded[i].batch = d.batch

----------------------------------------------------------------------------
(* Claims about start() and stop() of the System *)

\* C18: when stop() has returned, and until a later start(), every thread of
\* the System has ended: no read, pipeline run or feed call is in progress or
\* will happen.
C18_StoppedMeansEnded ==
    lcStopped => \A t \in 1..Len(lcThreads) : Ended(lcThreads[t])

\* C19: a start() in which source.start() raises hands the exception to the
\* caller, calls source.start() once, creates no thread and leaves is_active
\* as it was, so False for a System that was not active.
C19_FailedStartChangesNothing ==
    [][(lcAttempts' # lcAttempts /\ lcUser'.err # None)
          => /\ lcAttempts' = lcAttempts + 1
             /\ lcThreads' = lcThreads
             /\ lc'.is_active = lc.is_active
             /\ lc'.main_thread = lc.main_thread]_vars

\* a start() failed on a System that is not active
C19_Witness ==
    /\ lcUser.err # None
    /\ ~lc.is_active
    /\ lcAttempts > 0

\* C20: at most one thread at a time is inside the pipeline.
C20_OneThreadInPipeline ==
    Cardinality({t \in 1..Len(lcThreads) : InPipeline(lcThreads[t])}) <= 1

----------------------------------------------------------------------------
(* Claims about the recorder *)

\* C21: after any sequence of write() calls followed by stop(), the file holds
\* the concatenation, in call order, of all the buffers written.
C21_FileHoldsAllWritten ==
    recCall.op = "stop" =>
        /\ recCall.err = None
        /\ recFile = PickledBuffer(recWritten)

----------------------------------------------------------------------------
(* Claims about a windowed transform fed a stream *)

\* the delivered samples that are window results, and those that are the default
NonDefault(out) == SelectSeq(out, LAMBDA v : v # DefaultValue)

Defaults(out) == SelectSeq(out, LAMBDA v : v = DefaultValue)

\* window_size = 4, overlap = 0, upsampling, ten calls of one sample each
TenSingleCalls ==
    /\ runWin.win_size = 4 /\ runWin.window_overlap = 0 /\ runWin.upsample
    /\ runCalls = 10 /\ runFed = 10 /\ runSizes = {1}

\* C23: a windowed transform with window_size=4, overlap=0 and upsampling, fed
\* 10 samples in 10 calls of one sample each, has returned 10 output samples by
\* the end of the 10th call, 8 of them window results and 2 the default value
C23_TenCallsTenOutputs ==
    TenSingleCalls =>
        /\ runErrs = 0
        /\ Len(runOut) = 10
        /\ Len(NonDefault(runOut)) = 8
        /\ Len(Defaults(runOut)) = 2

\* the result of the per-window computation on each window computed so far
WindowResults == [i \in 1..Len(runWindows) |->
                     windowed_fn(Arr("()", runWindows[i]), OutputShape).t[1]]

\* C24: with upsampling disabled no call raises, every call leaves the output
\* buffer empty, and the calls so far have returned, in order, the results of
\* all windows completed so far (so a call that completes no window returns
\* nothing)
C24_VariableCadenceDrains ==
    ~runWin.upsample =>
        /\ runErrs = 0
        /\ NumpyBuffer_len(runWin.output_buffer) = 0
        /\ runOut = WindowResults

\* without upsampling: an empty call and a call that completed no window came
\* before a call that completed two windows at once
C24_Witness ==
    /\ ~runWin.upsample
    /\ runWin.win_size = 2 /\ runWin.window_overlap = 1
    /\ runSizes = {0, 1, 2}
    /\ runCalls = 3 /\ runFed = 3
    /\ Len(runOut) = 2

\* hop = window_size - overlap
Hop == runWin.win_size - runWin.window_overlap

\* max(0, floor((N - window_size) / hop) + 1)
NumWindows(N) == IF N < runWin.win_size THEN 0 ELSE ((N - runWin.win_size) \div Hop) + 1

\* C26: with hop = window_size - overlap >= 1 the k-th window handed to the
\* per-window computation (k = 0, 1, ...) holds the samples with stream indices
\* k*hop .. k*hop + window_size - 1 in order, however the stream is split into
\* calls, and after N samples max(0, floor((N - window_size)/hop) + 1) windows
\* have been computed (the sample with stream index i has the value i + 1)
C26_WindowsByIndex ==
    Hop >= 1 =>
        /\ Len(runWindows) = NumWindows(runFed)
        /\ \A k \in 0..(Len(runWindows) - 1) :
              runWindows[k + 1] = [j \in 1..runWin.win_size |-> k * Hop + (j - 1) + 1]

\* three overlapping windows were computed from seven samples fed in chunks of
\* one and of two samples
C26_Witness ==
    /\ runWin.win_size = 3 /\ runWin.window_overlap = 1
    /\ runFed = 7
    /\ Len(runWindows) = 3
    /\ runSizes = {1, 2}

----------------------------------------------------------------------------
(* Claims about missing input channels *)

\* the names of the form name_k, k an integer: the channel and the row
\* addressed (the key None for the other names)
SubChannel(nm) ==
    CASE nm = "b_1" -> [key |-> "b", index |-> 1]
      [] nm = "b_2" -> [key |-> "b", index |-> 2]
      [] nm = "q_0" -> [key |-> "q", index |-> 0]
      [] OTHER -> [key |-> None, index |-> 0]

\* the name is neither a channel of the buffer nor a row of one
AbsentName(data, nm) ==
    /\ nm \notin DOMAIN data
    /\ ~(/\ SubChannel(nm).key # None
         /\ SubChannel(nm).key \in DOMAIN data
         /\ SubChannel(nm).index < FirstAxis(data[SubChannel(nm).key]))

\* the absent channel a declared name stands for: the channel whose row it
\* addresses when that channel is absent, otherwise the name itself
AbsentChannel(data, nm) ==
    IF SubChannel(nm).key # None /\ SubChannel(nm).key \notin DOMAIN data
    THEN SubChannel(nm).key ELSE nm

\* the batch as functions 1..i-1 leave it when none of them fails
BeforeFn(i) == compute_signal_functions(pipeCall.data_in, SubSeq(pipeFns, 1, i - 1), 0)

\* function i is reached, and one of its declared inputs is absent then
ReachedWithAbsentInput(i) ==
    /\ BeforeFn(i).err = None
    /\ pipeCall.failAt = 0 \/ pipeCall.failAt >= i
    /\ \E k \in 1..Len(pipeFns[i].input_signals) :
          AbsentName(BeforeFn(i).data, pipeFns[i].input_signals[k])

FirstAbsent(i) ==
    LET ins == pipeFns[i].input_signals
        k == CHOOSE j \in 1..Len(ins) :
                /\ AbsentName(BeforeFn(i).data, ins[j])
                /\ \A h \in 1..(j - 1) : ~AbsentName(BeforeFn(i).data, ins[h])
    IN AbsentChannel(BeforeFn(i).data, ins[k])

\* C25: if a declared input name of function i is absent from the buffer when
\* function i is about to execute, the computation fails with a missing-channel
\* error that names the absent channel, and function i and the functions after
\* it are not invoked
C25_MissingChannelNamed ==
    pipeCall.op = "compute" =>
        \A i \in 1..Len(pipeFns) :
            ReachedWithAbsentInput(i) =>
                /\ pipeCall.err = "KeyError"
                /\ pipeCall.named = FirstAbsent(i)
                /\ \A j \in 1..Len(pipeCall.calls) : pipeCall.calls[j].fn < i

----------------------------------------------------------------------------
(* Claims about Delay *)

\* n zeros followed by the samples fed so far
DelayedStream == [i \in 1..dlyFn.n |-> 0] \o Fresh(0, dlyFed)

\* C28: for Delay(n) on a one-dimensional signal every call with a chunk of k
\* samples returns k samples, the concatenation of the outputs is n zeros
\* followed by the input stream, cut to the number of samples fed, however the
\* stream is split into calls, and after every call the buffer holds n samples
C28_DelayShiftsByN ==
    (dlyShape = "()" /\ dlyCall.op = "call") =>
        /\ dlyCall.err = None
        /\ Len(dlyCall.out) = dlyCall.arg
        /\ dlyOut = SubSeq(DelayedStream, 1, dlyFed)
        /\ NumpyBuffer_len(dlyFn.buffer[1]) = dlyFn.n

\* Delay(0) has returned a chunk as it came, and Delay(2) has returned samples
\* of the stream after its zeros
C28_Witness ==
    /\ dlyShape = "()"
    /\ dlyCall.op = "call"
    /\ dlyCall.arg = 2
    /\ dlyFn.n \in {0, 2}
    /\ dlyFed >= 4
    /\ dlyOut[dlyFed] # 0

----------------------------------------------------------------------------
(* Claims about Combine *)

\* C29: Combine([f1..fn]) applied to a buffer returns the value that running
\* f1..fn in order through compute_signal_functions on that buffer stores under
\* fn's name
C29_CombineIsThePipeline ==
    (cmbOut.op = "compute" /\ cmbOut.pipeline.err = None) =>
        /\ cmbOut.combine.err = None
        /\ cmbOut.combine.v = cmbOut.pipeline.v

----------------------------------------------------------------------------
(* Claims about Sampler.start() *)

\* C30: on Sampler.start() the start() of every configured source has returned
\* before the first callback of the timer thread that the call starts queries a
\* source, and the call sets is_active only after it has started its timer thread
C30_SourcesThenThreadThenActive ==
    /\ \A t \in 1..Len(stThreads) :
          stThreads[t].queried > 0 =>
              \A s \in stHasStart : <<stThreads[t].call, s>> \in stReturned
    /\ \A c \in stActivated : \E t \in 1..Len(stThreads) : stThreads[t].call = c

\* both sources have a start method, and the timer thread of a second start()
\* has queried a source and the Sampler is active
C30_Witness ==
    /\ stHasStart = {"s1", "s2"}
    /\ stSmp.is_active
    /\ \E t \in 1..Len(stThreads) : stThreads[t].call = 2 /\ stThreads[t].queried > 0

----------------------------------------------------------------------------
(* Claims about what extend leaves alone *)

\* the channels of the buffer before the call that the new data does not name
Untouched == DOMAIN bufCall.pre.data \ Keys(bufCall.arg)

\* C32: extend(new_data) changes only the channels named in new_data: a channel
\* of the buffer that new_data does not name keeps its name, content and length,
\* and no channel is created for a name that new_data does not hold, in every
\* state of the buffer, the one with all channels of length 0 included
C32_ExtendKeepsOtherChannels ==
    (IsData /\ bufCall.op = "extend") =>
        /\ \A k \in Untouched : k \in DOMAIN db.data /\ db.data[k] = bufCall.pre.data[k]
        /\ DOMAIN db.data \subseteq DOMAIN bufCall.pre.data \cup Keys(bufCall.arg)

\* the same for the calls on a buffer that holds at least one sample and no
\* channel longer than maxlen
C32_HoldsOnNonEmptyBuffer ==
    (/\ IsData /\ bufCall.op = "extend" /\ DataBuffer_len(bufCall.pre.data) > 0
     /\ db.maxlen # <<>> => DataBuffer_len(bufCall.pre.data) <= db.maxlen[1]) =>
        /\ \A k \in Untouched : k \in DOMAIN db.data /\ db.data[k] = bufCall.pre.data[k]
        /\ DOMAIN db.data \subseteq DOMAIN bufCall.pre.data \cup Keys(bufCall.arg)

----------------------------------------------------------------------------
(* Claims about a buffer and its copy *)

\* C34: after b2 = b.copy() on a DataBuffer, an extend, append, item assignment
\* or clear on one of the two buffers leaves the channel names, contents and
\* lengths of the other as they were
C34_CopyIsIndependent ==
    (cpRef[2] # 0 /\ cpCall.op \in {"extend", "append", "setitem", "clear"}) =>
        Content(Other(cpCall.buf)) = cpCall.other

\* an extend on a buffer that holds samples has lengthened a channel of it while
\* its copy holds the samples it was made with
C34_Witness ==
    /\ cpRef[2] # 0
    /\ cpCall.op = "extend"
    /\ cpCall.err = None
    /\ \E k \in DOMAIN cpCall.other :
          /\ Len(cpCall.other[k].t) > 0
          /\ k \in DOMAIN Content(cpCall.buf)
          /\ Len(Content(cpCall.buf)[k].t) > Len(cpCall.other[k].t)

----------------------------------------------------------------------------
(* Claims about the termination of the drain loop *)

\* C33: a call to a windowed transform terminates for every configuration the
\* constructor accepts and every input chunk: each iteration of the drain loop
\* removes at least one sample from the input buffer
C33_CallTerminates ==
    (Constructed(win) /\ winCall.op = "call") => winCall.err # "diverges"

----------------------------------------------------------------------------
(* Claims about the microphone source *)

\* the samples of the channel audio in a buffer
Audio(data) == IF "audio" \in DOMAIN data THEN data["audio"].t ELSE <<>>

\* how often chunk c occurs in a sequence of samples
Occurrences(t, c) == Cardinality({i \in 1..Len(t) : t[i] = c})

RECURSIVE Flat(_)
Flat(bufs) == IF bufs = <<>> THEN <<>> ELSE Audio(Head(bufs)) \o Flat(Tail(bufs))

\* C35: every audio chunk passed to receive() appears in exactly one buffer
\* returned by read(), for every interleaving of receive and read: no chunk is
\* returned twice, and once receive and read have returned every chunk is in a
\* returned buffer or in the shared buffer that the next read returns
C35_EveryChunkReadOnce ==
    /\ \A c \in 1..micChunks : Occurrences(Flat(micReturned), c) <= 1
    /\ (micRecv.pc = "idle" /\ micReader.pc = "idle") =>
          \A c \in 1..micChunks :
             Occurrences(Flat(micReturned) \o Audio(micHeap[micRef]), c) = 1

----------------------------------------------------------------------------
(* Claims about Sampler.stop() *)

\* stop() has not been entered on a Sampler that is not active
StopOnlyWhenActive == stUser.pc = "stop" => stSmp.is_active

\* no sample was put on the queue after stop() had returned
NoPutAfterStop == \A t \in 1..Len(stThreads) : ~stThreads[t].late_put

\* C36: during Sampler.stop() on an active sampler the timer callback never
\* queries a source after that source's stop() has been called, once stop() has
\* returned no further sample is enqueued, and stop() on a sampler that is not
\* active does nothing
C36_StopQuiesces ==
    /\ \A t \in 1..Len(stThreads) : stThreads[t].late = {}
    /\ NoPutAfterStop
    /\ StopOnlyWhenActive

----------------------------------------------------------------------------
(* Claims about recording while the loop runs *)

\* C37: with start_recording() and stop_recording() called while the loop
\* runs, no thread of the loop ends in the AttributeError of a missing (None)
\* recorder, and write() is never called on a recorder whose stop() has been
\* called.
C37_WritesToLiveRecorder ==
    /\ \A t \in 1..Len(rsThreads) : rsThreads[t].err = None
    /\ \A r \in 1..Len(rsRecorders) : ~rsRecorders[r].after_stop

\* the batches the feeds were given while recorder r was recording
DispatchedWhile(r) == {d.batch : d \in {x \in rsDispatched : x.rec = r}}

\* C31: in stop(), stop() of the recorder is called when no thread of the
\* System is alive; the recorder it finalized holds every batch that was
\* passed to the feeds while it was recording; and the source is stopped
\* when the main thread has ended and recording is over.
C31_StopFinalizesAfterTheLoop ==
    /\ \A r \in 1..Len(rsRecorders) :
          rsRecorders[r].by_stop =>
              /\ ~rsRecorders[r].alive
              /\ DispatchedWhile(r) \subseteq rsRecorders[r].written
    /\ rsUser.pc = "source.stop" =>
          /\ Ended(rsThreads[rs.main_thread])
          /\ ~rs.is_recording

\* the order of the statements of stop(): the recorder is finalized by stop()
\* when main_thread has ended, and the source is stopped after that
C31_MainThreadEndedFirst ==
    /\ (rsUser.via = "stop" /\ rsUser.pc \in {"recorder.stop", "recorder.none", "recording.off", "source.stop"})
          => Ended(rsThreads[rs.main_thread])
    /\ rsUser.pc = "source.stop" => ~rs.is_recording

----------------------------------------------------------------------------
(* Claims about start() and stop() of the SignalSystem *)

\* C38: from the return of SignalSystem.start() until stop() is called the
\* thread that start() created has not ended, and no read of the source
\* happens once stop() has returned.
C38_LoopRunsFromStartToStop ==
    /\ ssUser.running => ~Ended(ssThreads[ssUser.thread])
    /\ ~ssLate

----------------------------------------------------------------------------
(* Claims about the loop of a System with a Sampler source *)

\* the calls of one dispatch so far: the first feeds of current_feeds, in
\* order, each with the buffer of this iteration
CallsInOrder ==
    /\ Len(lvThread.called) <= Len(lvThread.current_feeds)
    /\ \A j \in 1..Len(lvThread.called) :
          lvThread.called[j] = [feed |-> lvThread.current_feeds[j], data |-> lvThread.data]

\* no feed occurs twice in current_feeds
NoFeedTwice ==
    \A j, k \in 1..Len(lvThread.current_feeds) :
        lvThread.current_feeds[j] = lvThread.current_feeds[k] => j = k

\* a step that takes current_feeds takes the feeds registered at that moment
TakesRegisteredFeeds ==
    (lvThread.pc = "check" /\ lvThread'.pc = "feeds") => lvThread'.current_feeds = lv.data_feeds

\* a register_data_feed of an id that is registered raises ValueError and
\* leaves data_feeds as it was
DuplicateRegisterRaises ==
    (lvUser' # lvUser /\ lvUser'.op = "register" /\ InSeq(lv.data_feeds, lvUser'.id))
        => lvUser'.err = "ValueError" /\ lv'.data_feeds = lv.data_feeds

====
